---------------------------- MODULE Spec2Model ----------------------------
(***************************************************************************)
(* A model of the gameboy-r emulator core: the clock divider, the timer,   *)
(* the joypad, the PPU scanline state machine, the HDMA engine, the MMU's  *)
(* cycle forwarding and interrupt aggregation, the cartridge bank          *)
(* controllers and the CPU's register file, stack and step function.       *)
(*                                                                         *)
(* Bytes and words are naturals; every arithmetic step keeps the width the *)
(* Rust code gives it (u8: % 256, u16: % 65536).  A Rust panic is modelled *)
(* by an `aborted' flag (or, for a pure read, by the value Abort).         *)
(***************************************************************************)
EXTENDS Integers, Sequences, FiniteSets, TLC

VARIABLES timer, joypad, ppu, hdma, mmu, cart, cpu, mem, clk, obs

vars == <<timer, joypad, ppu, hdma, mmu, cart, cpu, mem, clk, obs>>

-----------------------------------------------------------------------------
(* Bounds of the model.                                                    *)

\* Total cycles the device specification delivers before it stops.
MaxTimerCycles == 2112
\* Number of register writes the device specification performs.
MaxBusWrites == 3
\* Total cycles the joypad specification delivers before it stops.
MaxJoypadCycles == 40
\* Number of VRAM DMA transfers the PPU specification starts.
MaxGdma == 1
\* Total cycles the PPU specification delivers before it stops.
MaxPpuCycles == 136000
\* Number of bus writes the cartridge specification performs.
MaxCartWrites == 4
\* Number of operations the CPU specification performs.
MaxCpuOps == 3
\* The writes to the OAM DMA register.
MaxDmaWrites == 2
\* The bus writes to IF and IE.
MaxIrqWrites == 2
\* The steps of one run of the whole machine.
MaxSteps == 3
\* The bus writes of one run of the whole machine.
MaxStepWrites == 2
\* The cycles the VRAM DMA specification forwards, and its bus writes.
MaxHdmaCycles == 240
MaxHdmaWrites == 2
\* The cycles the render specification forwards, and its writes to LYC.
MaxRenderCycles == 304
MaxRenderWrites == 1
\* The cycles the sprite specification forwards, and its bus writes.
MaxSpriteCycles == 16
MaxSpriteWrites == 3
\* The bus accesses of the work RAM specification.
MaxWramOps == 3
\* The cycles the sound specification forwards, and its bus writes.
MaxApuCycles == 73728
MaxApuWrites == 2
\* The bytes streamed into a CGB palette.
MaxStream == 4
\* The cycles delivered while the frontend polls the screen-updated flag.
MaxScreenCycles == 48
\* The cycles supplied to the Clock that stands alone.
MaxClockCycles == 700

-----------------------------------------------------------------------------
(* Bit operations on naturals (Rust's &, |, ! on u8/u16).                  *)

RECURSIVE BitAndN(_, _, _)
BitAndN(x, y, n) ==
    IF n = 0 \/ x = 0 \/ y = 0 THEN 0
    ELSE (x % 2) * (y % 2) + 2 * BitAndN(x \div 2, y \div 2, n - 1)

BitAnd(x, y) == BitAndN(x, y, 16)

BitOr(x, y) == x + y - BitAnd(x, y)

\* !mask on a u8
BitNot8(x) == 255 - x

\* The value returned by a read that panics.
Abort == -1

\* A memory that holds 0 wherever nothing has been stored.
EmptyStore == [k \in {} |-> 0]

Load(store, i) == IF i \in DOMAIN store THEN store[i] ELSE 0

Store(store, i, v) ==
    [k \in DOMAIN store \cup {i} |-> IF k = i THEN v ELSE store[k]]

InRange(addr, lo, hi) == lo <= addr /\ addr <= hi

-----------------------------------------------------------------------------
(* clock.rs                                                                *)

NewClock(period) == [period |-> period, num_cycles |-> 0]

\* A clock that forgets the cycles left over after a tick.
ClockRunCycles_DropRemainder(clock, cycles) ==
    LET n == clock.num_cycles + cycles
    IN  [clock |-> [clock EXCEPT !.num_cycles =
                        IF n >= clock.period THEN 0 ELSE n],
         ticks |-> n \div clock.period]

\* A clock that counts the elapsed periods but never takes them off the
\* cycles it stores.
ClockRunCycles_KeepWhole(clock, cycles) ==
    LET n == clock.num_cycles + cycles
    IN  [clock |-> [clock EXCEPT !.num_cycles = n],
         ticks |-> n \div clock.period]

\* Clock::run_cycles: the new clock and the number of whole periods elapsed.
ClockRunCycles(clock, cycles) ==
    LET n == clock.num_cycles + cycles
    IN  [clock |-> [clock EXCEPT !.num_cycles = n % clock.period],
         ticks |-> n \div clock.period]

-----------------------------------------------------------------------------
(* timer.rs                                                                *)

\* InterruptFlag (mmu.rs)
IntVBlank == 1
IntLCDStat == 2
IntTimer == 4
IntJoypad == 16

\* Timer::new.  g_incs and g_overflows are history fields: the number of
\* TIMA increments and of TIMA overflows performed so far.
NewTimer ==
    [div |-> 0, tima |-> 0, tma |-> 0, tac |-> 0,
     div_clock |-> NewClock(256), tma_clock |-> NewClock(1024),
     interrupt |-> 0, g_incs |-> 0, g_overflows |-> 0]

\* One iteration of the loop of Timer::run_cycles.
TimaIncrement(t) ==
    LET v == (t.tima + 1) % 256
    IN  IF v = 0
        THEN [t EXCEPT !.tima = t.tma,
                       !.interrupt = BitOr(t.interrupt, IntTimer),
                       !.g_incs = @ + 1, !.g_overflows = @ + 1]
        ELSE [t EXCEPT !.tima = v, !.g_incs = @ + 1]

RECURSIVE TimaLoop(_, _)
TimaLoop(t, n) == IF n = 0 THEN t ELSE TimaLoop(TimaIncrement(t), n - 1)

\* Timer::run_cycles
\* A timer that counts whatever TAC says.
TimerRunCycles_AlwaysCounts(t, cycles) ==
    LET d  == ClockRunCycles(t.div_clock, cycles)
        t1 == [t EXCEPT !.div = (t.div + (d.ticks % 256)) % 256,
                        !.div_clock = d.clock]
        c  == ClockRunCycles(t1.tma_clock, cycles)
    IN  TimaLoop([t1 EXCEPT !.tma_clock = c.clock], c.ticks)

TimerRunCycles(t, cycles) ==
    LET d  == ClockRunCycles(t.div_clock, cycles)
        t1 == [t EXCEPT !.div = (t.div + (d.ticks % 256)) % 256,
                        !.div_clock = d.clock]
    IN  IF BitAnd(t1.tac, 4) # 0
        THEN LET c == ClockRunCycles(t1.tma_clock, cycles)
             IN  TimaLoop([t1 EXCEPT !.tma_clock = c.clock], c.ticks)
        ELSE t1

\* The period a TAC value selects (Timer::set_byte, 0xFF07).
TacPeriod(value) ==
    CASE BitAnd(value, 3) = 0 -> 1024
      [] BitAnd(value, 3) = 1 -> 16
      [] BitAnd(value, 3) = 2 -> 64
      [] OTHER -> 256

\* A TAC write that leaves TIMA alone when the period select changes.
TimerSetByte_KeepTima(t, addr, value) ==
    CASE addr = 65284 ->
            [t EXCEPT !.div = 0, !.div_clock.num_cycles = 0]
      [] addr = 65285 -> [t EXCEPT !.tima = value]
      [] addr = 65286 -> [t EXCEPT !.tma = value]
      [] OTHER ->
            IF BitAnd(t.tac, 3) # BitAnd(value, 3)
            THEN [t EXCEPT !.tma_clock = [period |-> TacPeriod(value),
                                          num_cycles |-> 0],
                           !.tac = value]
            ELSE [t EXCEPT !.tac = value]

\* Timer::set_byte for addr in 0xFF04..0xFF07
TimerSetByte(t, addr, value) ==
    CASE addr = 65284 ->
            [t EXCEPT !.div = 0, !.div_clock.num_cycles = 0]
      [] addr = 65285 -> [t EXCEPT !.tima = value]
      [] addr = 65286 -> [t EXCEPT !.tma = value]
      [] OTHER ->
            IF BitAnd(t.tac, 3) # BitAnd(value, 3)
            THEN [t EXCEPT !.tma_clock = [period |-> TacPeriod(value),
                                          num_cycles |-> 0],
                           !.tima = t.tma,
                           !.tac = value]
            ELSE [t EXCEPT !.tac = value]

\* Timer::get_byte for addr in 0xFF04..0xFF07
TimerGetByte(t, addr) ==
    CASE addr = 65284 -> t.div
      [] addr = 65285 -> t.tima
      [] addr = 65286 -> t.tma
      [] OTHER -> t.tac

-----------------------------------------------------------------------------
(* joypad.rs                                                               *)

\* JoypadKey
JoypadKeys == {1, 2, 4, 8, 16, 32, 64, 128}
KeyDown == 8

NewJoypad == [matrix |-> 255, select |-> 0, interrupt |-> 0]

\* Joypad::keydown
JoypadKeydown(j, key) ==
    [j EXCEPT !.matrix = BitAnd(j.matrix, BitNot8(key)),
              !.interrupt = BitOr(j.interrupt, IntJoypad)]

\* A joypad whose key-up also withdraws the interrupt request.
JoypadKeyup_ClearsInterrupt(j, key) ==
    [j EXCEPT !.matrix = BitOr(j.matrix, key), !.interrupt = 0]

\* Joypad::keyup
JoypadKeyup(j, key) == [j EXCEPT !.matrix = BitOr(j.matrix, key)]

\* A joypad whose select bits pick the opposite half of the matrix.
JoypadGetByte_SwappedRows(j) ==
    IF BitAnd(j.select, 16) = 0
    THEN BitOr(j.select, j.matrix \div 16)
    ELSE IF BitAnd(j.select, 32) = 0
         THEN BitOr(j.select, BitAnd(j.matrix, 15))
         ELSE j.select

\* Joypad::get_byte (addr = 0xFF00)
JoypadGetByte(j) ==
    IF BitAnd(j.select, 16) = 0
    THEN BitOr(j.select, BitAnd(j.matrix, 15))
    ELSE IF BitAnd(j.select, 32) = 0
         THEN BitOr(j.select, j.matrix \div 16)
         ELSE j.select

\* Joypad::set_byte (addr = 0xFF00)
JoypadSetByte(j, value) == [j EXCEPT !.select = value]

-----------------------------------------------------------------------------
(* ppu/mod.rs, ppu/lcd.rs: the scanline state machine and the CGB colour   *)
(* palettes, OAM, VRAM and the scanline render.  bgp_data and obp_data     *)
(* hold the intensity of channel ch of colour c of palette r at            *)
(* (r * 4 + c) * 3 + ch; vram and priorities hold the entries stored so    *)
(* far, every other byte of vram being 0 and every other entry of          *)
(* priorities (true, 0).  Of the framebuffer the record keeps what the     *)
(* last scanline render has done to it:                                    *)
(*   g_line, g_row   the line drawn by draw_background and the row of      *)
(*                   `data' it was stored in (-1: none)                    *)
(*   g_draw          the pixels of a render are part of the record; when   *)
(*                   it is not set a render records g_line and g_row only  *)
(*   g_data          the pixels the render stored, by column               *)
(*   g_obj           for the columns whose pixel a sprite stored last:     *)
(*                   that sprite's OAM entry, colour index and attribute   *)

\* BGPI::new
NewBgpi == [index |-> 0, auto_increment |-> FALSE]

\* BGPI::get
BgpiGet(pi) == (IF pi.auto_increment THEN 128 ELSE 0) + pi.index

\* BGPI::set
BgpiSet(value) == [index |-> value % 64, auto_increment |-> value >= 128]

\* Where channel ch of the colour a palette index selects is kept.
PaletteSlot(index, ch) ==
    ((index \div 8) * 4 + ((index \div 2) % 4)) * 3 + ch

\* PPU::get_byte for 0xFF69 and 0xFF6B: the byte read at pi's index.
PaletteGet(pi, data) ==
    IF pi.index % 2 = 0
    THEN LET a == Load(data, PaletteSlot(pi.index, 0))
             b == (Load(data, PaletteSlot(pi.index, 1)) * 32) % 256
         IN  BitOr(a, b)
    ELSE LET a == Load(data, PaletteSlot(pi.index, 1)) \div 8
             b == (Load(data, PaletteSlot(pi.index, 2)) * 4) % 256
         IN  BitOr(a, b)

\* PPU::set_byte for 0xFF69 and 0xFF6B: the index register and the palette
\* memory after value is written at pi's index.
PaletteSet(pi, data, value) ==
    LET g == Load(data, PaletteSlot(pi.index, 1))
        d == IF pi.index % 2 = 0
             THEN Store(Store(data, PaletteSlot(pi.index, 0), value % 32),
                        PaletteSlot(pi.index, 1),
                        BitOr(BitAnd(g, 24), value \div 32))
             ELSE Store(Store(data, PaletteSlot(pi.index, 1),
                              BitOr(BitAnd(g, 7), (value % 4) * 8)),
                        PaletteSlot(pi.index, 2), (value \div 4) % 32)
    IN  [pi |-> IF pi.auto_increment
                THEN [pi EXCEPT !.index = (@ + 1) % 64] ELSE pi,
         data |-> d]

\* PPU::new followed by the LCDC write of Mmu::new (0xFF40 <- 0x91).  gbc
\* is `mode == CartridgeMode::GBC'.  Of the framebuffer `data' the record
\* keeps which row the last scanline render wrote: g_line is LY at that
\* render and g_row the row it stored its 160 pixels in (-1: none since
\* the screen was last cleared).  panicked: that render indexed `data'
\* out of bounds.  g_vblanks is a history field: the number of entries
\* into V-Blank.
NewPpu ==
    [lcdc |-> 145, mode |-> 0, gbc |-> FALSE,
     g_line |-> -1, g_row |-> -1, panicked |-> FALSE,
     lyc_interrupt_enabled |-> FALSE, m2_oam_interrupt_enabled |-> FALSE,
     m1_vblank_interrupt_enabled |-> FALSE,
     m0_hblank_interrupt_enabled |-> FALSE,
     lcdc_y |-> 0, ly_compare |-> 0, dots |-> 0,
     vblank |-> FALSE, hblank |-> FALSE, interrupt |-> 0,
     bgpi |-> NewBgpi, bgp_data |-> EmptyStore,
     obpi |-> NewBgpi, obp_data |-> EmptyStore,
     oam |-> EmptyStore,
     scroll_y |-> 0, scroll_x |-> 0, window_y |-> 0, window_x |-> 0,
     bg_palette |-> 252, object_pallete_0 |-> 255,
     object_pallete_1 |-> 255,
     vram |-> EmptyStore, vram_bank |-> 0, priorities |-> EmptyStore,
     g_draw |-> FALSE, g_data |-> EmptyStore, g_obj |-> EmptyStore,
     g_vblanks |-> 0]

\* LCDControl::has_bit7
HasBit7(p) == BitAnd(p.lcdc, 128) # 0

\* SCREEN_HEIGHT
ScreenHeight == 144

\* SCREEN_WIDTH
ScreenWidth == 160

\* Bit n of a byte.
Bit(value, n) == (value \div 2 ^ n) % 2

\* Attribute::from
Attribute(value) ==
    [priority |-> Bit(value, 7) # 0, y_flip |-> Bit(value, 6) # 0,
     x_flip |-> Bit(value, 5) # 0, palette_number |-> Bit(value, 4) * 16,
     vram_bank |-> Bit(value, 3) # 0, cgb_palette_number |-> value % 8]

\* PPU::get_vram
GetVram(p, num, addr) == Load(p.vram, addr - 32768 + num * 8192)

\* PPU::get_gray_shade
GetGrayShade(value, i) ==
    CASE (value \div 4 ^ i) % 4 = 0 -> 255
      [] (value \div 4 ^ i) % 4 = 1 -> 192
      [] (value \div 4 ^ i) % 4 = 2 -> 96
      [] OTHER -> 0

\* The pixel PPU::set_greyscale stores.
Greyscale(g) == <<g, g, g>>

\* The pixel PPU::set_rgb stores.
Rgb(r, g, b) ==
    <<((r * 13 + g * 2 + b) \div 2) % 256, ((g * 3 + b) * 2) % 256,
      ((r * 3 + g * 2 + b * 11) \div 2) % 256>>

\* The pixel of colour `color' of palette `pal' of bgp_data.
BgpRgb(p, pal, color) ==
    Rgb(Load(p.bgp_data, (pal * 4 + color) * 3),
        Load(p.bgp_data, (pal * 4 + color) * 3 + 1),
        Load(p.bgp_data, (pal * 4 + color) * 3 + 2))

\* self.priorities[x]
Priority(p, x) ==
    IF x \in DOMAIN p.priorities THEN p.priorities[x] ELSE <<TRUE, 0>>

\* PPU::draw_background, the values of one iteration of its loop over x.
ShowWindow(p) == Bit(p.lcdc, 5) # 0 /\ p.window_y <= p.lcdc_y

InWindow(p, x) == ShowWindow(p) /\ x >= (p.window_x + 249) % 256

BgPictureY(p) ==
    IF ShowWindow(p) THEN (p.lcdc_y + 256 - p.window_y) % 256
    ELSE (p.scroll_y + p.lcdc_y) % 256

BgPictureX(p, x) ==
    IF InWindow(p, x) THEN x - ((p.window_x + 249) % 256)
    ELSE (p.scroll_x + x) % 256

BgTileAddr(p, x) ==
    (IF InWindow(p, x)
     THEN (IF Bit(p.lcdc, 6) # 0 THEN 39936 ELSE 38912)
     ELSE (IF Bit(p.lcdc, 3) # 0 THEN 39936 ELSE 38912))
    + ((BgPictureY(p) \div 8) % 32) * 32
    + ((BgPictureX(p, x) \div 8) % 32)

BgTileLocation(p, tile_number) ==
    IF Bit(p.lcdc, 4) # 0 THEN 32768 + tile_number * 16
    ELSE 34816 + ((tile_number + 128) % 256) * 16

BgTileRow(p, attr, tile_location, n) ==
    GetVram(p, IF p.gbc /\ attr.vram_bank THEN 1 ELSE 0,
            tile_location
              + (IF attr.y_flip THEN 7 - (BgPictureY(p) % 8)
                 ELSE BgPictureY(p) % 8) * 2 + n)

BgColorAt(p, attr, tile_location, tile_x) ==
    Bit(BgTileRow(p, attr, tile_location, 0), 7 - tile_x)
      + 2 * Bit(BgTileRow(p, attr, tile_location, 1), 7 - tile_x)

BgTilePixel(p, attr, tile_location, picture_x) ==
    [priority |-> attr.priority, pal |-> attr.cgb_palette_number,
     color |-> BgColorAt(p, attr, tile_location,
                         IF attr.x_flip THEN 7 - (picture_x % 8)
                         ELSE picture_x % 8)]

BgPixel(p, x) ==
    BgTilePixel(p, Attribute(GetVram(p, 1, BgTileAddr(p, x))),
                BgTileLocation(p, GetVram(p, 0, BgTileAddr(p, x))),
                BgPictureX(p, x))

BgStored(p, px) ==
    IF p.gbc THEN BgpRgb(p, px.pal, px.color)
    ELSE Greyscale(GetGrayShade(p.bg_palette, px.color))

\* PPU::draw_background; set_rgb and set_greyscale store at
\* data[ly_compare][x] and panic when ly_compare is not a row.
DrawBackground(p) ==
    IF p.ly_compare >= ScreenHeight THEN [p EXCEPT !.panicked = TRUE]
    ELSE [p EXCEPT !.g_line = p.lcdc_y, !.g_row = p.ly_compare,
                   !.priorities =
                       [x \in 0..(ScreenWidth - 1) |->
                           <<BgPixel(p, x).priority, BgPixel(p, x).color>>],
                   !.g_data =
                       [x \in 0..(ScreenWidth - 1) |->
                           BgStored(p, BgPixel(p, x))]]

\* PPU::draw_sprites, the values of the iteration for OAM entry i.
SpriteSize(p) == IF Bit(p.lcdc, 2) # 0 THEN 16 ELSE 8

SpriteY(p, i) == (Load(p.oam, i * 4) + 240) % 256

SpriteX(p, i) == (Load(p.oam, i * 4 + 1) + 248) % 256

SpriteTile(p, i) ==
    IF Bit(p.lcdc, 2) # 0
    THEN Load(p.oam, i * 4 + 2) - Bit(Load(p.oam, i * 4 + 2), 0)
    ELSE Load(p.oam, i * 4 + 2)

SpriteAttr(p, i) == Attribute(Load(p.oam, i * 4 + 3))

\* The two `continue's before the tile row is fetched.
SpriteSkipped(p, i) ==
    \/ IF SpriteY(p, i) <= 255 - SpriteSize(p) + 1
       THEN \/ p.lcdc_y < SpriteY(p, i)
            \/ p.lcdc_y > SpriteY(p, i) + SpriteSize(p) - 1
       ELSE p.lcdc_y > ((SpriteY(p, i) + SpriteSize(p)) % 256) - 1
    \/ SpriteX(p, i) >= ScreenWidth /\ SpriteX(p, i) <= 255 - 7

SpriteTileY(p, i) ==
    IF SpriteAttr(p, i).y_flip
    THEN SpriteSize(p) - 1 - ((p.lcdc_y + 256 - SpriteY(p, i)) % 256)
    ELSE (p.lcdc_y + 256 - SpriteY(p, i)) % 256

SpriteRow(p, i, n) ==
    GetVram(p, IF p.gbc /\ SpriteAttr(p, i).vram_bank THEN 1 ELSE 0,
            32768 + SpriteTile(p, i) * 16 + SpriteTileY(p, i) * 2 + n)

SpriteColor(p, i, x) ==
    Bit(SpriteRow(p, i, 0),
        7 - (IF SpriteAttr(p, i).x_flip THEN 7 - x ELSE x))
      + 2 * Bit(SpriteRow(p, i, 1),
                7 - (IF SpriteAttr(p, i).x_flip THEN 7 - x ELSE x))

\* `skip': the priority of background and sprite.
SpriteHidden(p, attr, priority) ==
    IF p.gbc /\ Bit(p.lcdc, 0) = 0 THEN priority[2] = 0
    ELSE IF priority[1] THEN priority[2] # 0
    ELSE attr.priority /\ priority[2] # 0

SpriteStored(p, attr, color) ==
    IF p.gbc THEN BgpRgb(p, attr.cgb_palette_number, color)
    ELSE IF attr.palette_number = 1
    THEN Greyscale(GetGrayShade(p.object_pallete_1, color))
    ELSE Greyscale(GetGrayShade(p.object_pallete_0, color))

\* One iteration of the loop over the 8 columns of OAM entry i.
SpriteColumn(p, i, x, col, color) ==
    IF col >= ScreenWidth \/ color = 0 THEN p
    ELSE IF SpriteHidden(p, SpriteAttr(p, i), Priority(p, col)) THEN p
    ELSE IF p.ly_compare >= ScreenHeight THEN [p EXCEPT !.panicked = TRUE]
    ELSE [p EXCEPT !.g_data =
                       Store(@, col, SpriteStored(p, SpriteAttr(p, i), color)),
                   !.g_obj =
                       Store(@, col, [i |-> i, color |-> color,
                                      attr |-> Load(p.oam, i * 4 + 3)])]

RECURSIVE SpriteColumns(_, _, _)
SpriteColumns(p, i, x) ==
    IF x = 8 \/ p.panicked THEN p
    ELSE SpriteColumns(SpriteColumn(p, i, x, (SpriteX(p, i) + x) % 256,
                                    SpriteColor(p, i, x)), i, x + 1)

RECURSIVE DrawSpritesFrom(_, _)
DrawSpritesFrom(p, i) ==
    IF i = 40 \/ p.panicked THEN p
    ELSE IF SpriteSkipped(p, i) THEN DrawSpritesFrom(p, i + 1)
    ELSE DrawSpritesFrom(SpriteColumns(p, i, 0), i + 1)

\* PPU::draw_sprites
DrawSprites(p) == DrawSpritesFrom(p, 0)

\* The second half of the render, on what the first half has left.
RenderSprites(p) ==
    IF ~p.panicked /\ Bit(p.lcdc, 1) # 0 THEN DrawSprites(p) ELSE p

\* The scanline render, pixel by pixel.
RenderPixels(p) ==
    RenderSprites(IF p.gbc \/ Bit(p.lcdc, 0) # 0 THEN DrawBackground(p)
                  ELSE p)

\* The scanline render at the entry into mode 0: draw_background runs in
\* GBC mode or with bit 0 of LCDC set and stores each of its 160 pixels
\* through set_rgb or set_greyscale, at data[ly_compare][x]; draw_sprites
\* runs with bit 1 of LCDC set.  (While g_draw is not set VRAM holds 0, so
\* every sprite pixel is transparent and draw_sprites stores nothing.)
RenderScanline(p) ==
    IF p.g_draw
    THEN RenderPixels([p EXCEPT !.g_data = EmptyStore, !.g_obj = EmptyStore])
    ELSE IF ~(p.gbc \/ BitAnd(p.lcdc, 1) # 0) THEN p
    ELSE IF p.ly_compare >= ScreenHeight THEN [p EXCEPT !.panicked = TRUE]
    ELSE [p EXCEPT !.g_line = p.lcdc_y, !.g_row = p.ly_compare]

\* The mode branch at the end of one loop iteration of PPU::run_cycles.
PpuModeStep(p) ==
    IF p.lcdc_y >= 144
    THEN IF p.mode = 1 THEN p
         ELSE [p EXCEPT !.mode = 1, !.vblank = TRUE,
                        !.interrupt =
                            IF p.m1_vblank_interrupt_enabled
                            THEN BitOr(BitOr(@, IntVBlank), IntLCDStat)
                            ELSE BitOr(@, IntVBlank),
                        !.g_vblanks = @ + 1]
    ELSE IF p.dots <= 80
    THEN IF p.mode = 2 THEN p
         ELSE [p EXCEPT !.mode = 2,
                        !.interrupt = IF p.m2_oam_interrupt_enabled
                                      THEN BitOr(@, IntLCDStat) ELSE @]
    ELSE IF p.dots <= 80 + 172
    THEN [p EXCEPT !.mode = 3]
    ELSE IF p.mode = 0 THEN p
         ELSE RenderScanline(
                 [p EXCEPT !.mode = 0, !.hblank = TRUE,
                           !.interrupt = IF p.m0_hblank_interrupt_enabled
                                         THEN BitOr(@, IntLCDStat) ELSE @])

\* One loop iteration of PPU::run_cycles, `add' being what it adds to dots.
PpuIter(p, add) ==
    LET d  == p.dots + add
        nd == d % 456
        p1 == IF d # nd
              THEN LET ny == (p.lcdc_y + 1) % 154
                   IN  [p EXCEPT !.dots = nd, !.lcdc_y = ny,
                                 !.interrupt =
                                     IF p.lyc_interrupt_enabled
                                        /\ ny = p.ly_compare
                                     THEN BitOr(@, IntLCDStat) ELSE @]
              ELSE [p EXCEPT !.dots = nd]
    IN  PpuModeStep(p1)

\* What iteration i of c adds to dots: 80, and cycles % 80 in the last one.
PpuChunk(cycles, c, i) == IF i = c - 1 THEN cycles % 80 ELSE 80

RECURSIVE PpuLoop(_, _, _, _)
PpuLoop(p, cycles, c, i) ==
    IF i >= c \/ p.panicked THEN p
    ELSE PpuLoop(PpuIter(p, PpuChunk(cycles, c, i)), cycles, c, i + 1)

\* PPU::run_cycles
PpuRunCycles(p, cycles) ==
    IF ~HasBit7(p) THEN p
    ELSE LET p1 == [p EXCEPT !.hblank = FALSE]
         IN  IF cycles = 0 THEN p1
             ELSE PpuLoop(p1, cycles, (cycles - 1) \div 80 + 1, 0)

\* PPU::set_byte for OAM and for the registers 0xFF40, 0xFF41, 0xFF45 and
\* 0xFF68 to 0xFF6B.
PpuSetByte(p, addr, value) ==
    CASE addr = 65344 ->
            IF BitAnd(value, 128) = 0
            THEN [p EXCEPT !.lcdc = value, !.dots = 0, !.lcdc_y = 0,
                           !.mode = 0, !.vblank = TRUE,
                           !.g_line = -1, !.g_row = -1,
                           !.g_data = EmptyStore, !.g_obj = EmptyStore]
            ELSE [p EXCEPT !.lcdc = value]
      [] addr = 65345 ->
            [p EXCEPT !.lyc_interrupt_enabled = BitAnd(value, 64) # 0,
                      !.m2_oam_interrupt_enabled = BitAnd(value, 32) # 0,
                      !.m1_vblank_interrupt_enabled = BitAnd(value, 16) # 0,
                      !.m0_hblank_interrupt_enabled = BitAnd(value, 8) # 0]
      [] InRange(addr, 32768, 40959) ->
            [p EXCEPT !.vram = Store(@, p.vram_bank * 8192 + addr - 32768,
                                     value)]
      [] addr = 65346 -> [p EXCEPT !.scroll_y = value]
      [] addr = 65347 -> [p EXCEPT !.scroll_x = value]
      [] addr = 65349 -> [p EXCEPT !.ly_compare = value]
      [] addr = 65351 -> [p EXCEPT !.bg_palette = value]
      [] addr = 65352 -> [p EXCEPT !.object_pallete_0 = value]
      [] addr = 65353 -> [p EXCEPT !.object_pallete_1 = value]
      [] addr = 65354 -> [p EXCEPT !.window_y = value]
      [] addr = 65355 -> [p EXCEPT !.window_x = value]
      [] addr = 65359 -> [p EXCEPT !.vram_bank = value % 2]
      [] InRange(addr, 65024, 65183) ->
            [p EXCEPT !.oam = Store(@, addr - 65024, value)]
      [] addr = 65384 -> [p EXCEPT !.bgpi = BgpiSet(value)]
      [] addr = 65385 ->
            LET w == PaletteSet(p.bgpi, p.bgp_data, value)
            IN  [p EXCEPT !.bgpi = w.pi, !.bgp_data = w.data]
      [] addr = 65386 -> [p EXCEPT !.obpi = BgpiSet(value)]
      [] addr = 65387 ->
            LET w == PaletteSet(p.obpi, p.obp_data, value)
            IN  [p EXCEPT !.obpi = w.pi, !.obp_data = w.data]
      [] OTHER -> p

\* PPU::get_byte for the registers 0xFF68 to 0xFF6B.
PpuGetByte(p, addr) ==
    CASE addr = 65384 -> BgpiGet(p.bgpi)
      [] addr = 65385 -> PaletteGet(p.bgpi, p.bgp_data)
      [] addr = 65386 -> BgpiGet(p.obpi)
      [] addr = 65387 -> PaletteGet(p.obpi, p.obp_data)

\* A frontend poll that reads the flag and leaves it set.
ScreenUpdatedReset_Sticky(p) == p

\* Gameboy::has_screen_updated: the PPU after the call (the call returns
\* the flag as it was before).
ScreenUpdatedReset(p) == [p EXCEPT !.vblank = FALSE]

-----------------------------------------------------------------------------
(* cartridges/: the ROM-only cartridge and the MBC1, MBC2, MBC3 and MBC5   *)
(* bank controllers.  One record serves every controller:                  *)
(*   kind        "RomOnly", "Mbc1", "Mbc2", "Mbc3" or "Mbc5"               *)
(*   rom_len     rom.len(); the bytes themselves are RomImage, overlaid by *)
(*               rom_patch, the bytes stored into rom since construction   *)
(*   ram_len     ram.len(); ram holds the bytes stored so far, every other *)
(*               byte being 0 (vec![0; ram_size])                          *)
(*   bank, bank_mode                 MBC1's registers                      *)
(*   rom_bank, ram_bank              MBC2/MBC3/MBC5's registers            *)
(*   ram_enabled                     ram_enabled / ram_enable              *)
(*   rtc                             MBC3's latched clock registers        *)
(*   aborted                         an access has panicked                *)

\* The bytes of the ROM image handed to the cartridge: byte i of the file.
RomImage(i) == ((i \div 16384) * 7 + (i % 16384) * 3 + 1) % 256

NewCart(kind, rom_len, ram_len) ==
    [kind |-> kind, rom_len |-> rom_len, ram_len |-> ram_len,
     rom_patch |-> EmptyStore, ram |-> EmptyStore,
     bank_mode |-> "Rom", bank |-> 1,
     rom_bank |-> 1, ram_bank |-> 0, ram_enabled |-> FALSE,
     rtc |-> [s |-> 0, m |-> 0, h |-> 0, dl |-> 0, dh |-> 0],
     aborted |-> FALSE]

\* self.rom[index]
RomByte(c, index) ==
    IF index >= c.rom_len THEN Abort
    ELSE IF index \in DOMAIN c.rom_patch THEN c.rom_patch[index]
    ELSE RomImage(index)

\* self.ram[index]
RamByte(c, index) ==
    IF index >= c.ram_len THEN Abort ELSE Load(c.ram, index)

\* self.ram[index] = value
RamStore(c, index, value) ==
    IF index >= c.ram_len THEN [c EXCEPT !.aborted = TRUE]
    ELSE [c EXCEPT !.ram = Store(@, index, value)]

\* RomOnly::get_byte
RomOnlyGetByte(c, addr) == RomByte(c, addr)

\* A ROM-only cartridge that stores what is written into its ROM.
RomOnlySetByte_Stores(c, addr, value) ==
    IF addr < c.rom_len THEN [c EXCEPT !.rom_patch = Store(@, addr, value)]
    ELSE c

\* RomOnly::set_byte
RomOnlySetByte(c, addr, value) == c

\* An MBC1 that ignores the upper bank bits in ROM mode.
Mbc1RomBank_Low5(c) == BitAnd(c.bank, 31)

\* MBC1::get_rom_bank
Mbc1RomBank(c) ==
    IF c.bank_mode = "Rom" THEN BitAnd(c.bank, 127) ELSE BitAnd(c.bank, 31)

\* MBC1::get_ram_bank
Mbc1RamBank(c) ==
    IF c.bank_mode = "Rom" THEN 0 ELSE BitAnd(c.bank, 96) \div 32

\* MBC1::get_byte
Mbc1GetByte(c, addr) ==
    IF InRange(addr, 0, 16383) THEN RomByte(c, addr)
    ELSE IF InRange(addr, 16384, 32767)
    THEN RomByte(c, Mbc1RomBank(c) * 16384 + addr - 16384)
    ELSE IF InRange(addr, 40960, 49151)
    THEN IF c.ram_enabled
         THEN RamByte(c, Mbc1RamBank(c) * 8192 + addr - 40960)
         ELSE 0
    ELSE 0

\* MBC1::set_byte
Mbc1SetByte(c, addr, value) ==
    IF InRange(addr, 40960, 49151)
    THEN IF c.ram_enabled
         THEN RamStore(c, Mbc1RamBank(c) * 8192 + addr - 40960, value)
         ELSE c
    ELSE IF InRange(addr, 0, 8191)
    THEN [c EXCEPT !.ram_enabled = (BitAnd(value, 15) = 10)]
    ELSE IF InRange(addr, 8192, 16383)
    THEN LET n == BitAnd(value, 31)
             bank_number == IF n = 0 THEN 1 ELSE n
         IN  [c EXCEPT !.bank = BitOr(BitAnd(c.bank, 96), bank_number)]
    ELSE IF InRange(addr, 16384, 24575)
    THEN LET bank_number == BitAnd(value, 3)
         IN  [c EXCEPT !.bank = BitOr(BitAnd(c.bank, 159),
                                      (bank_number * 32) % 256)]
    ELSE IF InRange(addr, 24576, 32767)
    THEN IF value = 0 THEN [c EXCEPT !.bank_mode = "Rom"]
         ELSE IF value = 1 THEN [c EXCEPT !.bank_mode = "Ram"]
         ELSE [c EXCEPT !.aborted = TRUE]
    ELSE c

\* Mbc2::get_byte
Mbc2GetByte(c, addr) ==
    IF InRange(addr, 0, 16383) THEN RomByte(c, addr)
    ELSE IF InRange(addr, 16384, 32767)
    THEN RomByte(c, c.rom_bank * 16384 + addr - 16384)
    ELSE IF InRange(addr, 40960, 41471)
    THEN IF c.ram_enabled THEN RamByte(c, addr - 40960) ELSE 0
    ELSE 0

\* An MBC2 that stores all eight bits of a byte written to its RAM.
Mbc2SetByte_Unmasked(c, addr, byte) ==
    LET value == BitAnd(byte, 15)
    IN  IF InRange(addr, 40960, 41471)
        THEN IF c.ram_enabled THEN RamStore(c, addr - 40960, byte) ELSE c
        ELSE IF InRange(addr, 0, 8191)
        THEN IF BitAnd(addr, 256) = 0
             THEN [c EXCEPT !.ram_enabled = (value = 10)]
             ELSE c
        ELSE IF InRange(addr, 8192, 16383)
        THEN IF BitAnd(addr, 256) # 0
             THEN [c EXCEPT !.rom_bank = value]
             ELSE c
        ELSE c

\* Mbc2::set_byte
Mbc2SetByte(c, addr, byte) ==
    LET value == BitAnd(byte, 15)
    IN  IF InRange(addr, 40960, 41471)
        THEN IF c.ram_enabled THEN RamStore(c, addr - 40960, value) ELSE c
        ELSE IF InRange(addr, 0, 8191)
        THEN IF BitAnd(addr, 256) = 0
             THEN [c EXCEPT !.ram_enabled = (value = 10)]
             ELSE c
        ELSE IF InRange(addr, 8192, 16383)
        THEN IF BitAnd(addr, 256) # 0
             THEN [c EXCEPT !.rom_bank = value]
             ELSE c
        ELSE c

\* A clock whose latch takes a day counter already past 255 as having
\* overflowed.
RtcTic_CarryTwice(rtc, d) ==
    LET days == (d \div 86400) % 65536
    IN  [s |-> d % 60, m |-> (d \div 60) % 60, h |-> (d \div 3600) % 24,
         dl |-> days % 256,
         dh |-> IF days <= 255 THEN rtc.dh
                ELSE IF BitAnd(rtc.dh, 1) = 0 THEN BitOr(rtc.dh, 1)
                ELSE BitOr(BitOr(rtc.dh, 1), 128)]

\* RealTimeClock::tic, d being the seconds elapsed since rtc.zero.
RtcTic(rtc, d) ==
    LET days == (d \div 86400) % 65536
    IN  [s |-> d % 60, m |-> (d \div 60) % 60, h |-> (d \div 3600) % 24,
         dl |-> days % 256,
         dh |-> IF days <= 255 THEN rtc.dh
                ELSE IF days <= 511 THEN BitOr(rtc.dh, 1)
                ELSE BitOr(BitOr(rtc.dh, 1), 128)]

\* RealTimeClock::get_byte
RtcGetByte(rtc, addr) ==
    CASE addr = 8 -> rtc.s
      [] addr = 9 -> rtc.m
      [] addr = 10 -> rtc.h
      [] addr = 11 -> rtc.dl
      [] addr = 12 -> rtc.dh
      [] OTHER -> Abort

\* RealTimeClock::set_byte on the cartridge that owns the clock.
RtcSetByte(c, addr, value) ==
    CASE addr = 8 -> [c EXCEPT !.rtc.s = value]
      [] addr = 9 -> [c EXCEPT !.rtc.m = value]
      [] addr = 10 -> [c EXCEPT !.rtc.h = value]
      [] addr = 11 -> [c EXCEPT !.rtc.dl = value]
      [] addr = 12 -> [c EXCEPT !.rtc.dh = value]
      [] OTHER -> [c EXCEPT !.aborted = TRUE]

\* Mbc3::get_byte
Mbc3GetByte(c, addr) ==
    IF InRange(addr, 0, 16383) THEN RomByte(c, addr)
    ELSE IF InRange(addr, 16384, 32767)
    THEN RomByte(c, c.rom_bank * 16384 + addr - 16384)
    ELSE IF InRange(addr, 40960, 49151)
    THEN IF c.ram_enabled
         THEN IF c.ram_bank <= 3
              THEN RamByte(c, c.ram_bank * 8192 + addr - 40960)
              ELSE RtcGetByte(c.rtc, c.ram_bank)
         ELSE 0
    ELSE 0

\* Mbc3::set_byte, d being the seconds elapsed since rtc.zero.
Mbc3SetByte(c, addr, value, d) ==
    IF InRange(addr, 40960, 49151)
    THEN IF c.ram_enabled
         THEN IF c.ram_bank <= 3
              THEN RamStore(c, c.ram_bank * 8192 + addr - 40960, value)
              ELSE RtcSetByte(c, c.ram_bank, value)
         ELSE c
    ELSE IF InRange(addr, 0, 8191)
    THEN [c EXCEPT !.ram_enabled = (BitAnd(value, 15) = 10)]
    ELSE IF InRange(addr, 8192, 16383)
    THEN LET n == BitAnd(value, 127)
         IN  [c EXCEPT !.rom_bank = IF n = 0 THEN 1 ELSE n]
    ELSE IF InRange(addr, 16384, 24575)
    THEN [c EXCEPT !.ram_bank = BitAnd(value, 15)]
    ELSE IF InRange(addr, 24576, 32767)
    THEN IF BitAnd(value, 1) # 0
         THEN [c EXCEPT !.rtc = RtcTic(c.rtc, d)]
         ELSE c
    ELSE c

\* Mbc5::get_byte
Mbc5GetByte(c, addr) ==
    IF InRange(addr, 0, 16383) THEN RomByte(c, addr)
    ELSE IF InRange(addr, 16384, 32767)
    THEN RomByte(c, c.rom_bank * 16384 + addr - 16384)
    ELSE IF InRange(addr, 40960, 49151)
    THEN IF c.ram_enabled
         THEN RamByte(c, c.ram_bank * 8192 + addr - 40960)
         ELSE 0
    ELSE 0

\* Mbc5::set_byte
Mbc5SetByte(c, addr, value) ==
    IF InRange(addr, 40960, 49151)
    THEN IF c.ram_enabled
         THEN RamStore(c, c.ram_bank * 8192 + addr - 40960, value)
         ELSE c
    ELSE IF InRange(addr, 0, 8191)
    THEN [c EXCEPT !.ram_enabled = (BitAnd(value, 15) = 10)]
    ELSE IF InRange(addr, 8192, 12287)
    THEN [c EXCEPT !.rom_bank = BitOr(BitAnd(c.rom_bank, 256), value)]
    ELSE IF InRange(addr, 12288, 16383)
    THEN [c EXCEPT !.rom_bank = BitOr(BitAnd(c.rom_bank, 255),
                                      BitAnd(value, 1) * 256)]
    ELSE IF InRange(addr, 16384, 24575)
    THEN [c EXCEPT !.ram_bank = BitAnd(value, 15)]
    ELSE c

\* Memory::get_byte on Box<dyn Cartridge>
CartGetByte(c, addr) ==
    CASE c.kind = "RomOnly" -> RomOnlyGetByte(c, addr)
      [] c.kind = "Mbc1" -> Mbc1GetByte(c, addr)
      [] c.kind = "Mbc2" -> Mbc2GetByte(c, addr)
      [] c.kind = "Mbc3" -> Mbc3GetByte(c, addr)
      [] OTHER -> Mbc5GetByte(c, addr)

\* Memory::set_byte on Box<dyn Cartridge>
CartSetByte(c, addr, value, d) ==
    CASE c.kind = "RomOnly" -> RomOnlySetByte(c, addr, value)
      [] c.kind = "Mbc1" -> Mbc1SetByte(c, addr, value)
      [] c.kind = "Mbc2" -> Mbc2SetByte(c, addr, value)
      [] c.kind = "Mbc3" -> Mbc3SetByte(c, addr, value, d)
      [] OTHER -> Mbc5SetByte(c, addr, value)

-----------------------------------------------------------------------------
(* mmu.rs: the OAM DMA register.  WRAM and VRAM hold 0 after Mmu::new and  *)
(* nothing here writes them.                                               *)

\* Mmu::get_byte for 0x0000..=0xFDFF: the byte read, or Abort.
BusGetByte(c, addr) ==
    IF InRange(addr, 0, 32767) \/ InRange(addr, 40960, 49151)
    THEN CartGetByte(c, addr)
    ELSE 0

\* The copy loop of the 0xFF46 arm of Mmu::set_byte: iteration i reads
\* base + i and stores it with Ppu::set_byte(0xFE00 + i).  The reads do not
\* depend on the stores, so the loop stops at the first read that panics
\* and has stored every byte before it.
OamDmaLoop(c, p, base) ==
    LET panics == {i \in 0..159 : BusGetByte(c, base + i) = Abort}
        n == IF panics = {} THEN 160
             ELSE CHOOSE i \in panics : \A j \in panics : i <= j
    IN  [ppu |-> [p EXCEPT !.oam =
                     [k \in DOMAIN p.oam \cup 0..(n - 1) |->
                         IF k < n THEN BusGetByte(c, base + k)
                         ELSE p.oam[k]]],
         aborted |-> n < 160]

\* Mmu::set_byte for 0xFF46
OamDma(c, p, value) ==
    IF value > 241 THEN [ppu |-> p, aborted |-> TRUE]
    ELSE OamDmaLoop(c, p, value * 256)

-----------------------------------------------------------------------------
(* ppu/hdma.rs and the DMA half of mmu.rs.  The bytes copied are not part  *)
(* of this record; g_blocks counts the 16-byte blocks transferred and      *)
(* g_bytes the bytes stored into VRAM.  aborted: a transfer has panicked.  *)

NewHdma ==
    [source |-> 0, destination |-> 0, active |-> FALSE, mode |-> "Gdma",
     remain |-> 0, g_blocks |-> 0, g_bytes |-> 0, aborted |-> FALSE]

\* Hdma::set_byte for addr = 0xFF55
HdmaStart(h, value) ==
    IF h.active /\ h.mode = "Hdma"
    THEN IF BitAnd(value, 128) = 0 THEN [h EXCEPT !.active = FALSE] ELSE h
    ELSE [h EXCEPT !.active = TRUE,
                   !.remain = BitAnd(value, 127),
                   !.mode = IF BitAnd(value, 128) # 0 THEN "Hdma" ELSE "Gdma"]

\* Hdma::set_byte for 0xFF51 to 0xFF55
HdmaSetByte(h, addr, value) ==
    CASE addr = 65361 -> [h EXCEPT !.source = value * 256 + (@ % 256)]
      [] addr = 65362 ->
            [h EXCEPT !.source = (@ \div 256) * 256 + BitAnd(value, 240)]
      [] addr = 65363 ->
            [h EXCEPT !.destination =
                          32768 + (BitAnd(value, 31) * 256) + (@ % 256)]
      [] addr = 65364 ->
            [h EXCEPT !.destination =
                          (@ \div 256) * 256 + BitAnd(value, 240)]
      [] OTHER -> HdmaStart(h, value)

\* Mmu::get_byte as a transfer reads its source: the cartridge below
\* 0x8000 and from 0xA000 to 0xBFFF, memory that reads without a panic
\* elsewhere.
HdmaGetByte(c, addr) ==
    IF addr <= 65023 THEN BusGetByte(c, addr) ELSE 0

\* The address PPU::set_byte stores a transferred byte at lies in VRAM; any
\* other address a transfer can produce is below 0xFE00 and not a register,
\* and PPU::set_byte panics on it.
InVram(addr) == InRange(addr, 32768, 40959)

\* The first iteration of a loop of n that panics, `bad' being the
\* iterations that would; n if none does.
FirstPanic(bad, n) ==
    IF bad = {} THEN n ELSE CHOOSE i \in bad : \A j \in bad : i <= j

\* The bytes the copy loop of Mmu::run_dma_hram stores before it panics on
\* a read or a store; 16 if it does not.
BlockBytes(c, source, destination) ==
    FirstPanic({i \in 0..15 : \/ ~InVram(destination + i)
                              \/ HdmaGetByte(c, source + i) = Abort}, 16)

\* Mmu::run_dma_hram after its copy loop has stored n bytes.  chk: the
\* build checks arithmetic overflow, and `source += 0x10` panics past
\* 0xFFFF.
BlockDone(chk, h, n) ==
    IF n < 16
    THEN [h EXCEPT !.g_bytes = @ + n, !.aborted = TRUE]
    ELSE IF chk /\ h.source + 16 > 65535
    THEN [h EXCEPT !.g_bytes = @ + 16, !.aborted = TRUE]
    ELSE [h EXCEPT !.source = (@ + 16) % 65536,
                   !.destination = (@ + 16) % 65536,
                   !.remain = IF @ = 0 THEN 127 ELSE @ - 1,
                   !.g_blocks = @ + 1,
                   !.g_bytes = @ + 16]

\* Mmu::run_dma_hram: one 16-byte block.
RunDmaHram(c, chk, h) ==
    BlockDone(chk, h, BlockBytes(c, h.source, h.destination))

\* The loop of the Gdma arm of Mmu::run_dma: n calls of run_dma_hram, up to
\* the first that panics.
RECURSIVE RunDmaBlocks(_, _, _, _)
RunDmaBlocks(c, chk, h, n) ==
    IF n = 0 \/ h.aborted THEN h
    ELSE RunDmaBlocks(c, chk, RunDmaHram(c, chk, h), n - 1)

\* The end of the Gdma arm of Mmu::run_dma, h1 being the engine after the
\* loop.
GdmaDone(h1, len) ==
    [hdma |-> IF h1.aborted THEN h1 ELSE [h1 EXCEPT !.active = FALSE],
     cycles |-> len * 8]

\* The end of the Hdma arm of Mmu::run_dma, h1 being the engine after the
\* block.
HdmaDone(h1) ==
    [hdma |-> IF h1.remain = 127 /\ ~h1.aborted
              THEN [h1 EXCEPT !.active = FALSE] ELSE h1,
     cycles |-> 8]

\* Mmu::run_dma: the new engine and the VRAM cycles the transfer costs.
RunDma(c, chk, h, p) ==
    IF ~h.active THEN [hdma |-> h, cycles |-> 0]
    ELSE IF h.mode = "Gdma"
    THEN GdmaDone(RunDmaBlocks(c, chk, h, h.remain + 1), h.remain + 1)
    ELSE IF ~p.hblank THEN [hdma |-> h, cycles |-> 0]
    ELSE HdmaDone(RunDmaHram(c, chk, h))

-----------------------------------------------------------------------------
(* apu/mod.rs and apu/channels: the sound registers, the frame sequencer,  *)
(* the length counters, the volume envelopes, the frequency sweep, the     *)
(* noise LFSR and the sample buffer shared with the audio callback.        *)
(*                                                                         *)
(* The Rc<RefCell<Register>> a channel shares with its parts is the field  *)
(* `register' of the channel; length_counter is LengthCounter::n, lfsr is  *)
(* Lfsr::n, index and wave_index the position in the waveform.  The        *)
(* band-limited buffers of the blip_buf crate are outside the repository:  *)
(* of them the model keeps frame_samples, the samples one frame of the     *)
(* sequencer clock yields at the host's sample rate.  buffer is the length *)
(* of the Vec behind the mutex, lock the thread that holds the mutex       *)
(* ("free", "apu", "audio"); playing and wanted are the positions of the   *)
(* two threads: the samples Apu::play has still to push, and the frames    *)
(* the running callback was asked for (-1: not running).  aborted: a write *)
(* has panicked.                                                           *)

\* Register::new
NewRegister(channel) ==
    [channel |-> channel, nrx0 |-> 0,
     nrx1 |-> IF channel \in {"Square1", "Square2"} THEN 64 ELSE 0,
     nrx2 |-> 0, nrx3 |-> 0, nrx4 |-> 0]

\* Register::clear
RegisterClear(r) ==
    [r EXCEPT !.nrx0 = 0, !.nrx1 = 0, !.nrx2 = 0, !.nrx3 = 0, !.nrx4 = 0]

GetSweepPeriod(r) == BitAnd(r.nrx0, 112) \div 16

GetNegate(r) == BitAnd(r.nrx0, 8) # 0

GetShift(r) == BitAnd(r.nrx0, 7)

GetLengthLoad(r) ==
    IF r.channel = "Wave" THEN 256 - r.nrx1 ELSE 64 - BitAnd(r.nrx1, 63)

GetStartingVolume(r) == r.nrx2 \div 16

GetEnvelopeAddMode(r) == BitAnd(r.nrx2, 8) # 0

GetPeriod(r) == BitAnd(r.nrx2, 7)

GetFrequency(r) == BitAnd(r.nrx4, 7) * 256 + r.nrx3

SetFrequency(r, frequency) ==
    [r EXCEPT !.nrx4 = BitAnd(@, 248) + ((frequency \div 256) % 8),
              !.nrx3 = frequency % 256]

GetClockShift(r) == r.nrx3 \div 16

GetWidthModeOfLfsr(r) == BitAnd(r.nrx3, 8) # 0

GetDividorCode(r) == BitAnd(r.nrx3, 7)

GetTrigger(r) == BitAnd(r.nrx4, 128) # 0

SetTrigger(r, value) ==
    [r EXCEPT !.nrx4 = IF value THEN BitOr(@, 128) ELSE BitAnd(@, 127)]

GetLengthEnable(r) == BitAnd(r.nrx4, 64) # 0

GetPowerStatus(r) == BitAnd(r.nrx2, 128) # 0

\* Register::get_clock_period; the left shift of the noise divisor stays
\* below 2^32.
GetClockPeriod(r) ==
    CASE r.channel \in {"Square1", "Square2"} -> (2048 - GetFrequency(r)) * 4
      [] r.channel = "Wave" -> (2048 - GetFrequency(r)) * 2
      [] r.channel = "Noise" ->
            (IF GetDividorCode(r) = 0 THEN 8 ELSE GetDividorCode(r) * 16)
                * 2 ^ GetClockShift(r)
      [] OTHER -> 8192

\* VolumeEnvelope::new
NewVolumeEnvelope == [volume |-> 0, clock |-> NewClock(8)]

\* VolumeEnvelope::reload
VolumeEnvelopeReload(e, r) ==
    [e EXCEPT !.clock.period = IF GetPeriod(r) = 0 THEN 8 ELSE GetPeriod(r),
              !.volume = GetStartingVolume(r)]

\* An envelope that stores whatever the step computes.
VolumeEnvelopeNext_Unchecked(e, r) ==
    IF GetPeriod(r) = 0 THEN e
    ELSE IF ClockRunCycles(e.clock, 1).ticks = 0
    THEN [e EXCEPT !.clock = ClockRunCycles(@, 1).clock]
    ELSE [e EXCEPT !.clock = ClockRunCycles(@, 1).clock,
                   !.volume = IF GetEnvelopeAddMode(r)
                              THEN (@ + 1) % 256 ELSE (@ + 255) % 256]

\* VolumeEnvelope::next: wrapping_add and wrapping_sub on a u8, the result
\* stored only when it is at most 15.
VolumeEnvelopeNext(e, r) ==
    IF GetPeriod(r) = 0 THEN e
    ELSE IF ClockRunCycles(e.clock, 1).ticks = 0
    THEN [e EXCEPT !.clock = ClockRunCycles(@, 1).clock]
    ELSE [e EXCEPT !.clock = ClockRunCycles(@, 1).clock,
                   !.volume =
                       IF GetEnvelopeAddMode(r)
                       THEN IF (@ + 1) % 256 <= 15 THEN (@ + 1) % 256 ELSE @
                       ELSE IF (@ + 255) % 256 <= 15 THEN (@ + 255) % 256
                            ELSE @]

\* LengthCounter::next on the channel that owns it.
LengthCounterNext(ch) ==
    IF GetLengthEnable(ch.register) /\ ch.length_counter # 0
    THEN [ch EXCEPT !.length_counter = @ - 1,
                    !.register = IF ch.length_counter = 1
                                 THEN SetTrigger(@, FALSE) ELSE @]
    ELSE ch

\* LengthCounter::reload
LengthCounterReload(ch) ==
    IF ch.length_counter = 0
    THEN [ch EXCEPT !.length_counter =
                        IF ch.register.channel = "Wave" THEN 256 ELSE 64]
    ELSE ch

\* FrequencySweep::new
NewFrequencySweep ==
    [clock |-> NewClock(8), enable |-> FALSE, shadow |-> 0,
     new_frequency |-> 0]

\* FrequencySweep::frequency_calculation (wrapping on a u16) followed by
\* FrequencySweep::overflow_check, on the first square channel.
FrequencyCalculation(ch) ==
    LET shadow == ch.frequency_sweep.shadow
        offset == shadow \div (2 ^ GetShift(ch.register))
        new    == IF GetNegate(ch.register)
                  THEN (shadow + 65536 - offset) % 65536
                  ELSE (shadow + offset) % 65536
    IN  [ch EXCEPT !.frequency_sweep.new_frequency = new,
                   !.register = IF new > 2047 THEN SetTrigger(@, FALSE)
                                ELSE @]

\* FrequencySweep::reload
FrequencySweepReload(ch) ==
    LET period == GetSweepPeriod(ch.register)
        loaded == [ch EXCEPT
                     !.frequency_sweep.shadow = GetFrequency(ch.register),
                     !.frequency_sweep.clock.period =
                         IF period = 0 THEN 8 ELSE period,
                     !.frequency_sweep.enable =
                         period # 0 \/ GetShift(ch.register) # 0]
    IN  IF GetShift(ch.register) # 0 THEN FrequencyCalculation(loaded)
        ELSE loaded

\* The write-back of FrequencySweep::next.
FrequencySweepStore(ch) ==
    IF ch.frequency_sweep.new_frequency <= 2047 /\ GetShift(ch.register) # 0
    THEN FrequencyCalculation(
             [ch EXCEPT !.register =
                            SetFrequency(@, ch.frequency_sweep.new_frequency),
                        !.frequency_sweep.shadow =
                            ch.frequency_sweep.new_frequency])
    ELSE ch

\* FrequencySweep::next
FrequencySweepNext(ch) ==
    IF ~ch.frequency_sweep.enable \/ GetSweepPeriod(ch.register) = 0 THEN ch
    ELSE IF ClockRunCycles(ch.frequency_sweep.clock, 1).ticks = 0
    THEN [ch EXCEPT !.frequency_sweep.clock = ClockRunCycles(@, 1).clock]
    ELSE FrequencySweepStore(
             FrequencyCalculation(
                 [ch EXCEPT !.frequency_sweep.clock =
                                ClockRunCycles(@, 1).clock]))

\* SquareChannel::new
NewSquareChannel(mode) ==
    [register |-> NewRegister(mode), clock |-> NewClock(8192),
     length_counter |-> 0, volume_envelope |-> NewVolumeEnvelope,
     frequency_sweep |-> NewFrequencySweep, index |-> 1]

\* SquareChannel::run_cycles: every tick of the channel clock moves the
\* position in the waveform.
SquareRunCycles(ch, cycles) ==
    [ch EXCEPT !.clock = ClockRunCycles(@, cycles).clock,
               !.index = (@ + ClockRunCycles(ch.clock, cycles).ticks) % 8]

\* What the trigger bit does to a square channel.
SquareTrigger(ch) ==
    IF ~GetTrigger(ch.register) THEN ch
    ELSE LET c == [LengthCounterReload(ch) EXCEPT
                       !.volume_envelope =
                           VolumeEnvelopeReload(@, ch.register)]
         IN  IF ch.register.channel = "Square1" THEN FrequencySweepReload(c)
             ELSE c

\* SquareChannel::set_byte with the address taken relative to NRx0.
SquareSetByte(ch, reg, value) ==
    CASE reg = 0 -> [ch EXCEPT !.register.nrx0 = value]
      [] reg = 1 ->
            [ch EXCEPT !.register.nrx1 = value,
                       !.length_counter =
                           GetLengthLoad([ch.register EXCEPT !.nrx1 = value])]
      [] reg = 2 -> [ch EXCEPT !.register.nrx2 = value]
      [] reg = 3 ->
            [ch EXCEPT !.register.nrx3 = value,
                       !.clock.period =
                           GetClockPeriod([ch.register EXCEPT !.nrx3 = value])]
      [] reg = 4 ->
            SquareTrigger(
                [ch EXCEPT !.register.nrx4 = value,
                           !.clock.period =
                               GetClockPeriod(
                                   [ch.register EXCEPT !.nrx4 = value])])

\* WaveChannel::new; wave_ram holds the bytes stored so far.
NewWaveChannel ==
    [register |-> NewRegister("Wave"), clock |-> NewClock(8192),
     length_counter |-> 0, wave_ram |-> EmptyStore, wave_index |-> 0]

\* WaveChannel::run_cycles
WaveRunCycles(ch, cycles) ==
    [ch EXCEPT !.clock = ClockRunCycles(@, cycles).clock,
               !.wave_index =
                   (@ + ClockRunCycles(ch.clock, cycles).ticks) % 32]

\* What the trigger bit does to the wave channel.
WaveTrigger(ch) ==
    IF ~GetTrigger(ch.register) THEN ch
    ELSE [LengthCounterReload(ch) EXCEPT !.wave_index = 0]

\* WaveChannel::set_byte
WaveSetByte(ch, addr, value) ==
    CASE addr = 65306 -> [ch EXCEPT !.register.nrx0 = value]
      [] addr = 65307 ->
            [ch EXCEPT !.register.nrx1 = value,
                       !.length_counter =
                           GetLengthLoad([ch.register EXCEPT !.nrx1 = value])]
      [] addr = 65308 -> [ch EXCEPT !.register.nrx2 = value]
      [] addr = 65309 ->
            [ch EXCEPT !.register.nrx3 = value,
                       !.clock.period =
                           GetClockPeriod([ch.register EXCEPT !.nrx3 = value])]
      [] addr = 65310 ->
            WaveTrigger(
                [ch EXCEPT !.register.nrx4 = value,
                           !.clock.period =
                               GetClockPeriod(
                                   [ch.register EXCEPT !.nrx4 = value])])
      [] InRange(addr, 65328, 65343) ->
            [ch EXCEPT !.wave_ram = Store(@, addr - 65328, value)]

\* An LFSR that shifts and feeds nothing back.
LfsrNext_NoFeedback(n, r) == (n * 2) % 65536

\* Lfsr::next on the u16 n: the register shifts left, and the bit shifted
\* in is the XOR of the bits at `shift' of the old and of the new value.
LfsrNext(n, r) ==
    LET shift   == IF GetWidthModeOfLfsr(r) THEN 6 ELSE 14
        shifted == (n * 2) % 65536
    IN  shifted + (((n \div (2 ^ shift)) + (shifted \div (2 ^ shift))) % 2)

\* The ticks of one NoiseChannel::run_cycles.
RECURSIVE LfsrTicks(_, _, _)
LfsrTicks(n, r, ticks) ==
    IF ticks = 0 THEN n ELSE LfsrTicks(LfsrNext(n, r), r, ticks - 1)

\* NoiseChannel::new
NewNoiseChannel ==
    [register |-> NewRegister("Noise"), clock |-> NewClock(4096),
     length_counter |-> 0, volume_envelope |-> NewVolumeEnvelope,
     lfsr |-> 1]

\* NoiseChannel::run_cycles: the LFSR steps on the ticks of a triggered
\* channel whose volume is not 0.
NoiseRunCycles(ch, cycles) ==
    [ch EXCEPT !.clock = ClockRunCycles(@, cycles).clock,
               !.lfsr =
                   IF ~GetTrigger(ch.register) \/ ch.volume_envelope.volume = 0
                   THEN @
                   ELSE LfsrTicks(@, ch.register,
                                  ClockRunCycles(ch.clock, cycles).ticks)]

\* What the trigger bit does to the noise channel (Lfsr::reload: n = 1).
NoiseTrigger(ch) ==
    IF ~GetTrigger(ch.register) THEN ch
    ELSE [LengthCounterReload(ch) EXCEPT
              !.volume_envelope = VolumeEnvelopeReload(@, ch.register),
              !.lfsr = 1]

\* NoiseChannel::set_byte
NoiseSetByte(ch, addr, value) ==
    CASE addr = 65311 -> [ch EXCEPT !.register.nrx0 = value]
      [] addr = 65312 ->
            [ch EXCEPT !.register.nrx1 = value,
                       !.length_counter =
                           GetLengthLoad([ch.register EXCEPT !.nrx1 = value])]
      [] addr = 65313 -> [ch EXCEPT !.register.nrx2 = value]
      [] addr = 65314 ->
            [ch EXCEPT !.register.nrx3 = value,
                       !.clock.period =
                           GetClockPeriod([ch.register EXCEPT !.nrx3 = value])]
      [] addr = 65315 ->
            NoiseTrigger([ch EXCEPT !.register.nrx4 = value])

\* Apu::new on a host whose stream runs at sample_rate.
NewApu(sample_rate, frame_samples) ==
    [register |-> NewRegister("Control"), clock |-> NewClock(8192),
     frame_sequencer |-> 0,
     channel1 |-> NewSquareChannel("Square1"),
     channel2 |-> NewSquareChannel("Square2"),
     channel3 |-> NewWaveChannel,
     channel4 |-> NewNoiseChannel,
     sample_rate |-> sample_rate, frame_samples |-> frame_samples,
     buffer |-> 0, lock |-> "free", playing |-> 0, wanted |-> -1,
     aborted |-> FALSE]

\* The test at the head of the loop of Apu::play: the call returns and
\* the samples left are dropped.
PlayReturns(len, sample_rate) == len > sample_rate

\* Apu::play on `count' samples, from locking the mutex to releasing it.
RECURSIVE Play(_, _, _)
Play(len, sample_rate, count) ==
    IF count = 0 \/ PlayReturns(len, sample_rate) THEN len
    ELSE Play(len + 1, sample_rate, count - 1)

\* The closure of get_audio_stream with write_audio_data_to_buffer: the
\* length of the buffer after the callback has drained `frames' pairs.
WriteAudioDataToBuffer(len, frames) ==
    len - (IF frames < len THEN frames ELSE len)

\* Apu::mix: the samples of the frame are read in blocks of 2048 and
\* played.
Mix(a) ==
    [a EXCEPT !.buffer = Play(@, a.sample_rate, a.frame_samples)]

\* The four channels' run_cycles in the loop of Apu::run_cycles.
ChannelsRun(a) ==
    [a EXCEPT !.channel1 = SquareRunCycles(@, a.clock.period),
              !.channel2 = SquareRunCycles(@, a.clock.period),
              !.channel3 = WaveRunCycles(@, a.clock.period),
              !.channel4 = NoiseRunCycles(@, a.clock.period)]

\* FrameSequencer::next
SequencerStep(a) == [a EXCEPT !.frame_sequencer = (@ + 1) % 8]

LengthStep(a) ==
    IF a.frame_sequencer \in {0, 2, 4, 6}
    THEN [a EXCEPT !.channel1 = LengthCounterNext(@),
                   !.channel2 = LengthCounterNext(@),
                   !.channel3 = LengthCounterNext(@),
                   !.channel4 = LengthCounterNext(@)]
    ELSE a

EnvelopeStep(a) ==
    IF a.frame_sequencer = 7
    THEN [a EXCEPT
            !.channel1.volume_envelope =
                VolumeEnvelopeNext(@, a.channel1.register),
            !.channel2.volume_envelope =
                VolumeEnvelopeNext(@, a.channel2.register),
            !.channel4.volume_envelope =
                VolumeEnvelopeNext(@, a.channel4.register)]
    ELSE a

SweepClocked(ch) == [ch EXCEPT !.clock.period = GetClockPeriod(ch.register)]

SweepStep(a) ==
    IF a.frame_sequencer \in {2, 6}
    THEN [a EXCEPT !.channel1 = SweepClocked(FrequencySweepNext(@))]
    ELSE a

\* One turn of the loop of Apu::run_cycles.
ApuFrame(a) ==
    Mix(SweepStep(EnvelopeStep(LengthStep(SequencerStep(ChannelsRun(a))))))

RECURSIVE ApuFrames(_, _)
ApuFrames(a, ticks) ==
    IF ticks = 0 THEN a ELSE ApuFrames(ApuFrame(a), ticks - 1)

\* Apu::run_cycles
ApuRunCycles(a, cycles) ==
    IF ~GetPowerStatus(a.register) THEN a
    ELSE ApuFrames([a EXCEPT !.clock = ClockRunCycles(@, cycles).clock],
                   ClockRunCycles(a.clock, cycles).ticks)

\* The write to NR52 in Apu::set_byte.
PowerSetByte(a, value) ==
    IF GetPowerStatus([a.register EXCEPT !.nrx2 = value])
    THEN [a EXCEPT !.register.nrx2 = value]
    ELSE [a EXCEPT !.channel1.register = RegisterClear(@),
                   !.channel2.register = RegisterClear(@),
                   !.channel3.register = RegisterClear(@),
                   !.channel4.register = RegisterClear(@),
                   !.register = RegisterClear(@)]

\* The match of Apu::set_byte.
ApuDispatch(a, addr, value) ==
    CASE InRange(addr, 65296, 65300) ->
            [a EXCEPT !.channel1 = SquareSetByte(@, addr - 65296, value)]
      [] InRange(addr, 65301, 65305) ->
            [a EXCEPT !.channel2 = SquareSetByte(@, addr - 65301, value)]
      [] InRange(addr, 65306, 65310) ->
            [a EXCEPT !.channel3 = WaveSetByte(@, addr, value)]
      [] InRange(addr, 65311, 65315) ->
            [a EXCEPT !.channel4 = NoiseSetByte(@, addr, value)]
      [] addr = 65316 -> [a EXCEPT !.register.nrx0 = value]
      [] addr = 65317 -> [a EXCEPT !.register.nrx1 = value]
      [] addr = 65318 -> PowerSetByte(a, value)
      [] InRange(addr, 65328, 65343) ->
            [a EXCEPT !.channel3 = WaveSetByte(@, addr, value)]
      [] OTHER -> [a EXCEPT !.aborted = TRUE]

\* An APU that takes every write, powered or not.
ApuSetByte_AlwaysOn(a, addr, value) == ApuDispatch(a, addr, value)

\* Apu::set_byte: while the power bit of NR52 is clear only NR52 is
\* written.
ApuSetByte(a, addr, value) ==
    IF addr # 65318 /\ ~GetPowerStatus(a.register) THEN a
    ELSE ApuDispatch(a, addr, value)

-----------------------------------------------------------------------------
(* mmu.rs: cycle forwarding and interrupt aggregation.                     *)

\* Mmu::new (Speed::Normal = 1, Speed::Double = 2); serial_interrupt is
\* serial.interrupt; apu is the Option<Apu>, <<>> for None and <<a>> for
\* Some(a); aborted: a bus access has panicked.
NewMmu ==
    [interrupts_asserted |-> 0, interrupts_enabled |-> 0,
     speed |-> 1, prepare_speed_switch |-> FALSE, serial_interrupt |-> 0,
     wram |-> EmptyStore, wram_bank |-> 1, apu |-> <<>>,
     aborted |-> FALSE]

\* The work RAM: 0xC000-0xCFFF and its echo 0xE000-0xEFFF are bank 0,
\* 0xD000-0xDFFF and its echo 0xF000-0xFDFF the bank selected by wram_bank.
\* wram holds the bytes stored so far, every other byte being 0.
WramSize == 32768
WramBankSize == 4096

WramIndex(m, addr) ==
    CASE InRange(addr, 49152, 53247) -> addr - 49152
      [] InRange(addr, 53248, 57343) ->
            addr - 53248 + WramBankSize * m.wram_bank
      [] InRange(addr, 57344, 61439) -> addr - 57344
      [] InRange(addr, 61440, 65023) ->
            addr - 61440 + WramBankSize * m.wram_bank

\* Mmu::get_byte on 0xC000-0xFDFF and on 0xFF70; Abort: the index is out
\* of bounds.
WramGetByte(m, addr) ==
    IF addr = 65392 THEN m.wram_bank % 256
    ELSE IF WramIndex(m, addr) >= WramSize THEN Abort
    ELSE Load(m.wram, WramIndex(m, addr))

WramSetByte(m, addr, value) ==
    IF WramIndex(m, addr) >= WramSize THEN [m EXCEPT !.aborted = TRUE]
    ELSE [m EXCEPT !.wram = Store(@, WramIndex(m, addr), value)]

\* Mmu::set_byte on 0xFF70.
SvbkSetByte(m, value) ==
    [m EXCEPT !.wram_bank = IF BitAnd(value, 7) = 0 THEN 1 ELSE value]

\* Mmu::perform_speed_switch
PerformSpeedSwitch(m) ==
    [m EXCEPT !.speed = IF m.prepare_speed_switch THEN 3 - @ ELSE @,
              !.prepare_speed_switch = FALSE]

\* A forwarding that scales the whole budget of the timer by the speed.
CpuCycles_Scaled(speed, cycles, vram_cycles) ==
    cycles * speed + vram_cycles * speed

\* The cycles Mmu::run_cycles forwards to the PPU (and the APU).
PpuCycles(speed, cycles, vram_cycles) == cycles \div speed + vram_cycles

\* The cycles Mmu::run_cycles forwards to the timer.
CpuCycles(speed, cycles, vram_cycles) == cycles + vram_cycles * speed

\* Mmu::run_cycles when run_dma panics: the engine as the panic leaves it,
\* and no device has been advanced.
DmaPanicked(s, h) ==
    [timer  |-> s.timer, joypad |-> s.joypad, ppu |-> s.ppu, hdma |-> h,
     mmu    |-> [s.mmu EXCEPT !.aborted = TRUE],
     ppu_cycles |-> 0, cpu_cycles |-> 0]

\* Mmu::set_byte on 0xFF10-0xFF3F: the write reaches the APU if there is
\* one.
MmuApuSetByte(m, addr, value) ==
    IF m.apu = <<>> THEN m
    ELSE [m EXCEPT !.apu = <<ApuSetByte(m.apu[1], addr, value)>>,
                   !.aborted = @ \/ ApuSetByte(m.apu[1], addr, value).aborted]

\* The APU's share of Mmu::run_cycles.
MmuApuRunCycles(m, ppu_cycles) ==
    IF m.apu = <<>> THEN m
    ELSE [m EXCEPT !.apu = <<ApuRunCycles(m.apu[1], ppu_cycles)>>]

\* An aggregation that assigns each device's field to IF instead of ORing
\* it in.
MmuForward_Overwrites(s, cycles, dma) ==
    LET pc  == PpuCycles(s.mmu.speed, cycles, dma.cycles)
        cc  == CpuCycles(s.mmu.speed, cycles, dma.cycles)
        t   == TimerRunCycles(s.timer, cc)
        p   == PpuRunCycles(s.ppu, pc)
    IN  IF dma.hdma.aborted THEN DmaPanicked(s, dma.hdma) ELSE
        [timer  |-> [t EXCEPT !.interrupt = 0],
         joypad |-> [s.joypad EXCEPT !.interrupt = 0],
         ppu    |-> [p EXCEPT !.interrupt = 0],
         hdma   |-> dma.hdma,
         mmu    |-> [MmuApuRunCycles(s.mmu, pc) EXCEPT
                                  !.interrupts_asserted = p.interrupt,
                                  !.serial_interrupt = 0,
                                  !.aborted = @ \/ p.panicked],
         ppu_cycles |-> pc,
         cpu_cycles |-> cc]

\* Mmu::run_cycles after its call of run_dma has returned dma.  No APU is
\* attached (Mmu::new leaves apu = None).
MmuForward(s, cycles, dma) ==
    LET pc  == PpuCycles(s.mmu.speed, cycles, dma.cycles)
        cc  == CpuCycles(s.mmu.speed, cycles, dma.cycles)
        t   == TimerRunCycles(s.timer, cc)
        if1 == BitOr(s.mmu.interrupts_asserted, t.interrupt)
        if2 == BitOr(if1, s.joypad.interrupt)
        p   == PpuRunCycles(s.ppu, pc)
        if3 == BitOr(if2, p.interrupt)
        if4 == BitOr(if3, s.mmu.serial_interrupt)
    IN  IF dma.hdma.aborted THEN DmaPanicked(s, dma.hdma) ELSE
        [timer  |-> [t EXCEPT !.interrupt = 0],
         joypad |-> [s.joypad EXCEPT !.interrupt = 0],
         ppu    |-> [p EXCEPT !.interrupt = 0],
         hdma   |-> dma.hdma,
         mmu    |-> [MmuApuRunCycles(s.mmu, pc) EXCEPT
                                  !.interrupts_asserted = if4,
                                  !.serial_interrupt = 0,
                                  !.aborted = @ \/ p.panicked],
         ppu_cycles |-> pc,
         cpu_cycles |-> cc]

\* Mmu::run_cycles on the devices s = [timer, joypad, ppu, hdma, mmu] and
\* the cartridge.
MmuRunCycles(s, cycles) ==
    MmuForward(s, cycles, RunDma(s.cart, s.chk, s.hdma, s.ppu))

Devices == [timer |-> timer, joypad |-> joypad, ppu |-> ppu, hdma |-> hdma,
            mmu |-> mmu, cart |-> cart, chk |-> cpu.overflow_checks]

\* Mmu::set_byte on the devices s, for the timer registers, IF, the LCD
\* registers 0xFF40 to 0xFF45, KEY1 (0xFF4D) and IE.
MmuSetByte(s, addr, value) ==
    CASE InRange(addr, 65284, 65287) ->
            [s EXCEPT !.timer = TimerSetByte(@, addr, value)]
      [] addr = 65295 -> [s EXCEPT !.mmu.interrupts_asserted = value]
      [] InRange(addr, 65296, 65343) ->
            [s EXCEPT !.mmu = MmuApuSetByte(@, addr, value)]
      [] \/ InRange(addr, 32768, 40959)
         \/ InRange(addr, 65024, 65183)
         \/ InRange(addr, 65344, 65349)
         \/ InRange(addr, 65351, 65355)
         \/ addr = 65359 ->
            [s EXCEPT !.ppu = PpuSetByte(@, addr, value)]
      [] addr = 65357 ->
            [s EXCEPT !.mmu.prepare_speed_switch = BitAnd(value, 1) = 1]
      [] InRange(addr, 49152, 65023) ->
            [s EXCEPT !.mmu = WramSetByte(@, addr, value)]
      [] addr = 65392 -> [s EXCEPT !.mmu = SvbkSetByte(@, value)]
      [] addr = 65535 -> [s EXCEPT !.mmu.interrupts_enabled = value]
      [] OTHER -> s

-----------------------------------------------------------------------------
(* cpu/registers.rs, memory.rs and cpu/mod.rs: the register file, the bus  *)
(* as the CPU sees it, the stack and the fetch.                            *)
(*                                                                         *)
(* The CPU works on any implementor of the Memory trait; here it is a flat *)
(* 64 KiB memory.  `mem' holds the cells read or written so far; a cell    *)
(* read for the first time takes the value the environment supplies.       *)
(* The operators below thread x = [cpu, mem, val, code, cb]: the CPU, the  *)
(* memory, the value just computed, and the opcode and CB opcode fetched   *)
(* by the current step (-1: none).                                         *)
(*                                                                         *)
(* cpu.overflow_checks is the build profile: `+= 1' and `-= 2' on a u16    *)
(* panic on overflow when it is set and wrap when it is not.  cpu.panic is *)
(* the message of the panic that ended the process ("": none).             *)

\* CpuFlag
FlagZ == 128
FlagN == 64
FlagH == 32
FlagC == 16

\* Registers::new and CPU::new
NewCpu(overflow_checks) ==
    [pc |-> 256, sp |-> 65534, a |-> 1, f |-> 176, b |-> 0, c |-> 19,
     d |-> 0, e |-> 216, h |-> 1, l |-> 77,
     halted |-> FALSE, stopped |-> FALSE, ei |-> FALSE,
     panic |-> "", overflow_checks |-> overflow_checks]

NewMem == EmptyStore

\* Registers::af
Af(r) == r.a * 256 + BitAnd(r.f, 240)

\* A register file that keeps all eight bits of F.
SetAf_Unmasked(r, value) ==
    [r EXCEPT !.a = value \div 256, !.f = BitAnd(value, 255)]

\* Registers::set_af
SetAf(r, value) ==
    [r EXCEPT !.a = value \div 256, !.f = BitAnd(value, 240)]

\* Registers::bc
Bc(r) == r.b * 256 + r.c

\* Registers::set_bc
SetBc(r, value) == [r EXCEPT !.b = value \div 256, !.c = BitAnd(value, 255)]

\* Registers::hl
Hl(r) == r.h * 256 + r.l

\* Registers::set_flag
SetFlag(r, mask, set) ==
    LET f1 == IF set THEN BitOr(r.f, mask) ELSE BitAnd(r.f, BitNot8(mask))
    IN  [r EXCEPT !.f = BitAnd(f1, 240)]

\* Registers::has_flag
HasFlag(r, mask) == BitAnd(r.f, mask) > 0

Live(x) == x.cpu.panic = ""

Panic(x, message) == [x EXCEPT !.cpu.panic = message]

\* The value of a cell: what was stored, or what the environment supplies.
Peek(m, addr, supplied) == IF addr \in DOMAIN m THEN m[addr] ELSE supplied

\* Memory::get_byte
GetByte(x, addr, supplied) ==
    LET v == Peek(x.mem, addr, supplied)
    IN  [x EXCEPT !.mem = Store(@, addr, v), !.val = v]

\* Memory::set_byte
SetByte(x, addr, value) == [x EXCEPT !.mem = Store(@, addr, value)]

\* Memory::get_word
GetWord(x, addr, lo, hi) ==
    LET x1 == GetByte(x, addr, lo)
    IN  IF addr + 1 > 65535 /\ x.cpu.overflow_checks
        THEN Panic(x1, "attempt to add with overflow")
        ELSE LET x2 == GetByte(x1, (addr + 1) % 65536, hi)
             IN  [x2 EXCEPT !.val = x1.val + 256 * x2.val]

\* Memory::set_word
SetWord(x, addr, value) ==
    LET x1 == SetByte(x, addr, BitAnd(value, 255))
    IN  IF addr + 1 > 65535 /\ x.cpu.overflow_checks
        THEN Panic(x1, "attempt to add with overflow")
        ELSE SetByte(x1, (addr + 1) % 65536, value \div 256)

\* CPU::get_byte_at_pc
GetByteAtPc(x, supplied) ==
    IF ~Live(x) THEN x
    ELSE LET x1 == GetByte(x, x.cpu.pc, supplied)
         IN  IF x.cpu.pc + 1 > 65535 /\ x.cpu.overflow_checks
             THEN Panic(x1, "attempt to add with overflow")
             ELSE [x1 EXCEPT !.cpu.pc = (@ + 1) % 65536]

\* CPU::add_to_stack
AddToStack(x, value) ==
    IF ~Live(x) THEN x
    ELSE IF x.cpu.sp < 2 /\ x.cpu.overflow_checks
    THEN Panic(x, "attempt to subtract with overflow")
    ELSE LET sp == (x.cpu.sp + 65536 - 2) % 65536
         IN  SetWord([x EXCEPT !.cpu.sp = sp], sp, value)

\* CPU::pop_stack
PopStack(x, lo, hi) ==
    IF ~Live(x) THEN x
    ELSE LET x1 == GetWord(x, x.cpu.sp, lo, hi)
         IN  IF ~Live(x1) THEN x1
             ELSE IF x.cpu.sp + 2 > 65535 /\ x.cpu.overflow_checks
             THEN Panic(x1, "attempt to add with overflow")
             ELSE [x1 EXCEPT !.cpu.sp = (@ + 2) % 65536]

-----------------------------------------------------------------------------
(* cpu/instructions.rs, cpu/op_codes.rs, cpu/cb_codes.rs and CPU::run, for *)
(* the opcodes NOP, STOP, JR NZ, SCF, HALT, POP BC, PUSH BC, 0xD3, RETI,   *)
(* POP AF, DI, PUSH AF, EI and CB-prefixed RLC (HL), SWAP A, BIT 0,(HL).   *)
(* env = [code, imm, lo, hi, iflag, ie] is what the environment supplies   *)
(* for cells read for the first time: the opcode, the byte after it, the   *)
(* data bytes, and the bytes at 0xFF0F and 0xFFFF.  A step that fetches an *)
(* opcode outside these sets is not part of the model.                     *)

OpCodes == {0, 16, 32, 55, 118, 193, 197, 203, 211, 217, 241, 243, 245, 251}

CbCodes == {6, 55, 70}

\* OP_CYCLES
OpCycles(code) ==
    CASE code = 0 -> 1    [] code = 16 -> 0   [] code = 32 -> 2
      [] code = 55 -> 1   [] code = 118 -> 0  [] code = 193 -> 3
      [] code = 197 -> 4  [] code = 203 -> 0  [] code = 211 -> 0
      [] code = 217 -> 4  [] code = 241 -> 3  [] code = 243 -> 1
      [] code = 245 -> 4  [] code = 251 -> 1

\* CB_CYCLES
CbCycles(cb_code) ==
    CASE cb_code = 6 -> 4 [] cb_code = 55 -> 2 [] cb_code = 70 -> 3
      [] OTHER -> 2

\* inst_alu_jr
InstAluJr(r, n) ==
    LET offset == IF n >= 128 THEN n - 256 ELSE n
    IN  [r EXCEPT !.pc = (r.pc + offset + 65536) % 65536]

\* inst_alu_scf
InstAluScf(r) ==
    SetFlag(SetFlag(SetFlag(r, FlagN, FALSE), FlagH, FALSE), FlagC, TRUE)

\* inst_alu_rlc: the value returned.
RlcResult(value) == ((value * 2) % 256) + (IF value >= 128 THEN 1 ELSE 0)

\* inst_alu_rlc: the flags.
InstAluRlc(r, value) ==
    LET has_carry == value >= 128
        result == RlcResult(value)
    IN  SetFlag(SetFlag(SetFlag(SetFlag(r, FlagZ, result = 0),
                                FlagN, FALSE), FlagH, FALSE),
                FlagC, has_carry)

\* inst_alu_swap: the flags; the value returned is SwapResult.
InstAluSwap(r, value) ==
    SetFlag(SetFlag(SetFlag(SetFlag(r, FlagZ, value = 0),
                            FlagN, FALSE), FlagH, FALSE), FlagC, FALSE)

SwapResult(value) == value \div 16 + (value % 16) * 16

\* inst_alu_bit
InstAluBit(r, value, bit) ==
    SetFlag(SetFlag(SetFlag(r, FlagZ, (value \div (2 ^ bit)) % 2 = 0),
                    FlagN, FALSE), FlagH, TRUE)

\* CPU::execute_cb
ExecuteCb(x, cb_code, env) ==
    LET x0 == [x EXCEPT !.cb = cb_code]
        x1 == CASE cb_code = 6 ->
                     LET g == GetByte(x0, Hl(x0.cpu), env.lo)
                         w == [g EXCEPT !.cpu = InstAluRlc(@, g.val)]
                     IN  SetByte(w, Hl(x0.cpu), RlcResult(g.val))
                [] cb_code = 55 ->
                     [x0 EXCEPT !.cpu = [InstAluSwap(@, x0.cpu.a)
                                           EXCEPT !.a = SwapResult(@)]]
                [] cb_code = 70 ->
                     LET g == GetByte(x0, Hl(x0.cpu), env.lo)
                     IN  [g EXCEPT !.cpu = InstAluBit(@, g.val, 0)]
                [] OTHER -> x0
    IN  [x1 EXCEPT !.val = CbCycles(cb_code)]

\* The end of CPU::execute: the statement after the match.
ExecuteEnd(x) ==
    IF Live(x) THEN Panic(x, "cpu: num cycles returned not implemented")
    ELSE x

\* CPU::execute
Execute(x, op_code, env) ==
    CASE op_code = 0 -> ExecuteEnd(x)
      [] op_code = 16 -> ExecuteEnd([x EXCEPT !.cpu.stopped = TRUE])
      [] op_code = 32 ->
            LET x1 == GetByteAtPc(x, env.imm)
            IN  ExecuteEnd(IF Live(x1) /\ ~HasFlag(x1.cpu, FlagZ)
                           THEN [x1 EXCEPT !.cpu = InstAluJr(@, x1.val)]
                           ELSE x1)
      [] op_code = 55 -> ExecuteEnd([x EXCEPT !.cpu = InstAluScf(@)])
      [] op_code = 118 -> ExecuteEnd([x EXCEPT !.cpu.halted = TRUE])
      [] op_code = 193 ->
            LET x1 == PopStack(x, env.lo, env.hi)
            IN  ExecuteEnd(IF Live(x1)
                           THEN [x1 EXCEPT !.cpu = SetBc(@, x1.val)]
                           ELSE x1)
      [] op_code = 197 -> ExecuteEnd(AddToStack(x, Bc(x.cpu)))
      [] op_code = 203 ->
            LET x1 == GetByteAtPc(x, env.imm)
            IN  IF Live(x1) THEN ExecuteCb(x1, x1.val, env) ELSE x1
      [] op_code = 217 ->
            LET x1 == PopStack(x, env.lo, env.hi)
            IN  ExecuteEnd(IF Live(x1)
                           THEN [x1 EXCEPT !.cpu.pc = x1.val,
                                           !.cpu.ei = TRUE]
                           ELSE x1)
      [] op_code = 241 ->
            LET x1 == PopStack(x, env.lo, env.hi)
            IN  ExecuteEnd(IF Live(x1)
                           THEN [x1 EXCEPT !.cpu = SetAf(@, x1.val)]
                           ELSE x1)
      [] op_code = 243 -> ExecuteEnd([x EXCEPT !.cpu.ei = FALSE])
      [] op_code = 245 -> ExecuteEnd(AddToStack(x, Af(x.cpu)))
      [] op_code = 251 -> ExecuteEnd([x EXCEPT !.cpu.ei = TRUE])
      [] OTHER -> Panic(x, "cpu: invalid op code")

\* u8::trailing_zeros, for n > 0
RECURSIVE TrailingZeros(_)
TrailingZeros(n) == IF n % 2 = 1 THEN 0 ELSE 1 + TrailingZeros(n \div 2)

\* An interrupt logic that dispatches whatever CPU.ei is.
HandleInterrupts_IgnoresIme(x, env) ==
    LET x1 == GetByte(x, 65295, env.iflag)
        x2 == GetByte(x1, 65535, env.ie)
        interrupts == BitAnd(x1.val, x2.val)
    IN  IF interrupts = 0 THEN [x2 EXCEPT !.val = 0]
        ELSE LET n  == TrailingZeros(interrupts)
                 x3 == [x2 EXCEPT !.cpu.halted = FALSE, !.cpu.ei = FALSE]
                 x4 == SetByte(x3, 65295, BitAnd(x1.val, BitNot8(2 ^ n)))
                 x5 == AddToStack(x4, x4.cpu.pc)
             IN  IF Live(x5)
                 THEN [x5 EXCEPT !.cpu.pc = BitOr(64, n * 8), !.val = 4]
                 ELSE x5

\* CPU::handle_interrupts: val is the value returned.
HandleInterrupts(x, env) ==
    IF ~x.cpu.halted /\ ~x.cpu.ei THEN [x EXCEPT !.val = 0]
    ELSE LET x1 == GetByte(x, 65295, env.iflag)
             x2 == GetByte(x1, 65535, env.ie)
             interrupts == BitAnd(x1.val, x2.val)
         IN  IF interrupts = 0 THEN [x2 EXCEPT !.val = 0]
             ELSE IF ~x.cpu.ei
             THEN [x2 EXCEPT !.cpu.halted = FALSE, !.val = 0]
             ELSE LET n  == TrailingZeros(interrupts)
                      x3 == [x2 EXCEPT !.cpu.halted = FALSE,
                                       !.cpu.ei = FALSE]
                      x4 == SetByte(x3, 65295,
                                    BitAnd(x1.val, BitNot8(2 ^ n)))
                      x5 == AddToStack(x4, x4.cpu.pc)
                  IN  IF Live(x5)
                      THEN [x5 EXCEPT !.cpu.pc = BitOr(64, n * 8),
                                      !.val = 4]
                      ELSE x5

\* CPU::run: val is the value returned.
Run(x, env) ==
    LET h == HandleInterrupts(x, env)
    IN  IF ~Live(h) \/ h.val # 0 THEN h
        ELSE IF h.cpu.halted THEN [h EXCEPT !.val = 1 * 4]
        ELSE LET x1 == GetByteAtPc(h, env.code)
                 x2 == [x1 EXCEPT !.code = x1.val]
             IN  IF ~Live(x2) THEN x2
                 ELSE LET e == Execute(x2, x2.code, env)
                      IN  [e EXCEPT !.val = @ * 4]

-----------------------------------------------------------------------------
(* The observer: what has been done to the machine so far.                 *)
(*   cpu_cycles, ppu_cycles  total cycles forwarded to the timer / the PPU *)
(*   writes                  the number of register writes performed       *)
(*   scripted                the writes performed are the first `writes'   *)
(*                           entries of TimerScript                        *)
(*   op                      the operation performed last                  *)
(*   overflowed              the last run_cycles overflowed TIMA           *)
(*   frame_start             the PPU cycles delivered when the PPU entered *)
(*                           V-Blank for the first time (0: not yet)       *)
(*   dmas                    the number of VRAM DMA transfers started      *)
(*   wrote                   <<addr, value>> of the last write if it went  *)
(*                           to 0xA000-0xBFFF and only reads of that       *)
(*                           address followed it; <<>> otherwise           *)
(*   read                    <<addr, value>> of the read performed last;   *)
(*                           <<>> if the last operation was not a read     *)
(*   v1, v2                  the last values written to 0x2000-0x3FFF and  *)
(*                           to 0x4000-0x5FFF (-1: none so far)            *)
(*   latch                   <<d, rtc>> if the last operation was a latch  *)
(*                           write on MBC3, d seconds after the clock's    *)
(*                           zero, and left the clock at rtc; <<>>         *)
(*                           otherwise                                     *)
(*   relatch                 <<rtc>> if the last two operations were latch *)
(*                           writes on MBC3 at the same second, the first  *)
(*                           having left the clock at rtc; <<>> otherwise  *)
(*   entered, disabled       since the last has_screen_updated (or since   *)
(*                           the start): the PPU has entered V-Blank; the  *)
(*                           LCD has been disabled by a write to LCDC      *)
(*   result                  what the last has_screen_updated returned     *)
(*   was_entered,            entered and disabled as they were when the    *)
(*   was_disabled            last has_screen_updated was called            *)
(*   seen_true, had_true     a has_screen_updated has returned true; one   *)
(*                           before the last has returned true             *)
(*   pal                     the index register written with 0x80: 65384,  *)
(*                           65386, or 0 (none yet)                        *)
(*   stream                  the bytes written to its data register since  *)
(*   seeking                 the program has started to read the palette   *)
(*                           back                                          *)
(*   ops                     the number of CPU operations performed        *)
(*   cycles                  what the last CPU::run returned (-1: it       *)
(*                           panicked)                                     *)
(*   pre_pc, pre_sp          PC and SP before the last CPU::run            *)
(*   code, cb                the opcode and the CB opcode the last         *)
(*                           CPU::run fetched (-1: none)                   *)
(*   arg                     the argument of the last register write       *)
(*   pushed                  <<opcode, value, SP before>> if the last      *)
(*                           operation was a CPU::run that executed PUSH   *)
(*                           BC or PUSH AF; <<>> otherwise                 *)
(*   popped                  what pushed was before the last CPU::run, if  *)
(*                           that run executed the POP of the register     *)
(*                           pair pushed; <<>> otherwise                   *)
(*   pre_ei, pre_halted      CPU.ei and CPU.halted before the last         *)
(*                           CPU::run                                      *)
(*   irq_if, irq_ie          the bytes at 0xFF0F and 0xFFFF before the     *)
(*                           last CPU::run (-1: never accessed, and not    *)
(*                           read by that run)                             *)
(*   key_irq                 "none", "pending" (a key went down and no     *)
(*                           emulator step has run since) or "delivered"   *)
(*   down                    <<key, matrix before>> of the key-down if it  *)
(*                           was the last operation; <<>> otherwise        *)
(*   prior                   at a key-up that directly follows the key-    *)
(*                           down of the same key: the matrix before that  *)
(*                           key-down (-1: the key-up follows none)        *)
(*   pre_matrix, pre_irq,    the matrix, joypad.interrupt and IF before    *)
(*   pre_if                  the last key-up                               *)
(*   step                    about the last Gameboy::step: the speed and   *)
(*                           the armed flag before it; IF when CPU::run    *)
(*                           returned (if_cpu); joypad.interrupt before it *)
(*                           (joy); whether the timer overflowed and the   *)
(*                           PPU entered V-Blank in it; whether a VRAM DMA *)
(*                           was active before it (dma); the cycles it     *)
(*                           forwarded to the timer and to the PPU         *)
(*   clk_total, clk_ticks    the cycles supplied to the Clock that stands  *)
(*                           alone, and the sum of the ticks it returned   *)
(*   clk_pre, clk_ret        its num_cycles before the last run_cycles and *)
(*                           what that call returned                       *)

NoStep ==
    [speed |-> 0, armed |-> FALSE, if_cpu |-> 0, joy |-> 0,
     overflowed |-> FALSE, vblanked |-> FALSE, dma |-> FALSE,
     timer_adv |-> 0, ppu_adv |-> 0]

\* No cycle forwarding of the VRAM DMA specification observed.
NoDma ==
    [hdma |-> FALSE, gdma |-> FALSE, len |-> 0, entered |-> FALSE,
     was_entered |-> FALSE, blocks |-> 0, bytes |-> 0, ppu_adv |-> 0,
     cyc |-> 0]

NewObs ==
    [cpu_cycles |-> 0, ppu_cycles |-> 0, writes |-> 0, scripted |-> TRUE,
     op |-> "new",
     overflowed |-> FALSE, frame_start |-> 0, dmas |-> 0,
     wrote |-> <<>>, read |-> <<>>, v1 |-> -1, v2 |-> -1,
     ops |-> 0, cycles |-> 0, pre_pc |-> 0, pre_sp |-> 0,
     code |-> -1, cb |-> -1, arg |-> 0,
     pushed |-> <<>>, popped |-> <<>>,
     pre_ei |-> FALSE, pre_halted |-> FALSE, irq_if |-> -1, irq_ie |-> -1,
     step |-> NoStep, dma |-> NoDma,
     key_irq |-> "none",
     latch |-> <<>>, relatch |-> <<>>,
     pal |-> 0, stream |-> <<>>, seeking |-> FALSE,
     entered |-> FALSE, disabled |-> FALSE, result |-> FALSE,
     was_entered |-> FALSE, was_disabled |-> FALSE,
     seen_true |-> FALSE, had_true |-> FALSE,
     down |-> <<>>, prior |-> -1, pre_matrix |-> 0, pre_irq |-> 0,
     pre_if |-> 0,
     clk_total |-> 0, clk_ticks |-> 0, clk_pre |-> 0, clk_ret |-> 0,
     width_set_on_zero |-> FALSE]

\* The observer after an operation that is not a key event.
NoKeyEvent(o) ==
    [o EXCEPT !.down = <<>>, !.prior = -1, !.pre_matrix = 0, !.pre_irq = 0,
              !.pre_if = 0, !.arg = 0]

\* The observer after an operation that is not a CPU::run.
NoCpuEvent(o) ==
    [o EXCEPT !.pushed = <<>>, !.popped = <<>>, !.pre_ei = FALSE,
              !.pre_halted = FALSE, !.irq_if = -1, !.irq_ie = -1]

\* The state of the machine after Mmu::new, and a Clock that stands alone.
InitDevices ==
    /\ timer = NewTimer
    /\ joypad = NewJoypad
    /\ ppu = NewPpu
    /\ hdma = NewHdma
    /\ mmu = NewMmu
    /\ clk = NewClock(100)

\* Mmu::run_cycles(cycles) as an action (the second half of Gameboy::step).
RunCycles(cycles) ==
    LET r == MmuRunCycles(Devices, cycles)
    IN  /\ ~mmu.aborted
        /\ timer' = r.timer
        /\ joypad' = r.joypad
        /\ ppu' = r.ppu
        /\ hdma' = r.hdma
        /\ mmu' = r.mmu
        /\ obs' = NoKeyEvent(
                     [obs EXCEPT !.cpu_cycles = @ + r.cpu_cycles,
                                 !.ppu_cycles = @ + r.ppu_cycles,
                                 !.op = "run",
                                 !.overflowed =
                                     r.timer.g_overflows > timer.g_overflows,
                                 !.frame_start =
                                     IF @ = 0 /\ r.ppu.g_vblanks > 0
                                     THEN obs.ppu_cycles + r.ppu_cycles
                                     ELSE @,
                                 !.key_irq = IF @ = "pending"
                                             THEN "delivered" ELSE @,
                                 !.entered =
                                     @ \/ r.ppu.g_vblanks > ppu.g_vblanks])
        /\ UNCHANGED <<clk, cart, cpu, mem>>

\* Some of the cycle counts one instruction can return (4 * (1..6)).
StepCycles == {4, 8, 20}

-----------------------------------------------------------------------------
(* The timer specification: register writes to 0xFF04..0xFF07 on a fresh   *)
(* machine, then cycles delivered in arbitrary per-step chunks.            *)

\* The write sequence of the timer-overflow scenario.
TimerScript == <<<<65286, 253>>, <<65285, 254>>, <<65287, 5>>>>

TimerWrites ==
    {<<65284, 0>>, <<65285, 254>>, <<65286, 253>>}
        \cup {<<65287, v>> : v \in 0..7}

\* Mmu::set_byte for 0xFF04..=0xFF07
TimerWrite(addr, value) ==
    /\ obs.cpu_cycles = 0
    /\ obs.writes < MaxBusWrites
    /\ timer' = TimerSetByte(timer, addr, value)
    /\ obs' = [obs EXCEPT !.writes = @ + 1,
                          !.scripted =
                              /\ @
                              /\ obs.writes < Len(TimerScript)
                              /\ TimerScript[obs.writes + 1] = <<addr, value>>,
                          !.op = "write",
                          !.overflowed = FALSE]
    /\ UNCHANGED <<clk, joypad, ppu, hdma, mmu, cart, cpu, mem>>

TimerRun(cycles) ==
    /\ obs.cpu_cycles + cycles <= MaxTimerCycles
    /\ RunCycles(cycles)

TimerInit ==
    /\ InitDevices
    /\ cart = NewCart("RomOnly", 32768, 0)
    /\ cpu = NewCpu(FALSE)
    /\ mem = NewMem
    /\ obs = NewObs

TimerNext ==
    \/ \E w \in TimerWrites : TimerWrite(w[1], w[2])
    \/ \E c \in StepCycles : TimerRun(c)

TimerSpec == TimerInit /\ [][TimerNext]_vars

\* C2: with TAC bit 2 set on a freshly reset timer, the cycles delivered, in
\* whatever per-step chunks, have incremented TIMA exactly
\* floor(cycles / period) times, the period being 1024, 16, 64 or 256 by TAC
\* bits 1-0; and a step in which TIMA overflowed leaves bit 2 of IF set.
C2_TimaIncrements ==
    /\ BitAnd(timer.tac, 4) # 0 =>
          /\ timer.tma_clock.period
                = CASE BitAnd(timer.tac, 3) = 0 -> 1024
                    [] BitAnd(timer.tac, 3) = 1 -> 16
                    [] BitAnd(timer.tac, 3) = 2 -> 64
                    [] OTHER -> 256
          /\ timer.g_incs = obs.cpu_cycles \div timer.tma_clock.period
    /\ obs.overflowed => BitAnd(mmu.interrupts_asserted, IntTimer) # 0

\* The 64-cycle period has overflowed TIMA, the cycles having come in
\* chunks that do not divide the period.
C2_Witness ==
    /\ timer.tac = 6
    /\ timer.g_overflows = 1
    /\ timer.g_incs = 3
    /\ timer.tma_clock.num_cycles % 16 # 0
    /\ obs.overflowed

TimerScripted == obs.scripted /\ obs.writes = Len(TimerScript)

\* C8 as stated: after TMA = 0xFD, TIMA = 0xFE, TAC = 0x05 on a fresh timer
\* and 32 cycles, TIMA has overflowed and reloaded to 0xFD and IF bit 2 is
\* set.
C8_Original ==
    (TimerScripted /\ obs.cpu_cycles = 32) =>
        /\ timer.tima = 253
        /\ timer.g_overflows = 1
        /\ BitAnd(mmu.interrupts_asserted, IntTimer) # 0

\* C8, amended: the TAC write changes the period select and so reloads TIMA
\* from TMA (0xFD); after 32 cycles TIMA is 0xFF with no overflow and IF
\* bit 2 clear, and after 48 cycles TIMA has overflowed and reloaded to
\* 0xFD with IF bit 2 set.
C8_Amended ==
    /\ (TimerScripted /\ obs.cpu_cycles = 0) => timer.tima = 253
    /\ (TimerScripted /\ obs.cpu_cycles = 32) =>
          /\ timer.tima = 255
          /\ timer.g_overflows = 0
          /\ BitAnd(mmu.interrupts_asserted, IntTimer) = 0
    /\ (TimerScripted /\ obs.cpu_cycles = 48) =>
          /\ timer.tima = 253
          /\ timer.g_overflows = 1
          /\ BitAnd(mmu.interrupts_asserted, IntTimer) # 0

C8_Witness ==
    /\ TimerScripted
    /\ obs.cpu_cycles = 48
    /\ timer.g_overflows = 1

-----------------------------------------------------------------------------
(* The joypad specification: select writes to 0xFF00, key events from the  *)
(* host, writes to IF, and emulator steps.                                 *)

\* The keys the host presses and releases: Up, Down and A.
HostKeys == {4, KeyDown, 16}

\* Mmu::set_byte for 0xFF00
JoypadWrite(value) ==
    /\ obs.writes < MaxBusWrites
    /\ joypad' = JoypadSetByte(joypad, value)
    /\ obs' = NoKeyEvent([obs EXCEPT !.writes = @ + 1, !.scripted = FALSE,
                                     !.op = "write", !.overflowed = FALSE])
    /\ UNCHANGED <<clk, timer, ppu, hdma, mmu, cart, cpu, mem>>

\* Mmu::set_byte for 0xFF0F
WriteIF(value) ==
    /\ obs.writes < MaxBusWrites
    /\ mmu' = [mmu EXCEPT !.interrupts_asserted = value]
    /\ obs' = NoKeyEvent(
                 [obs EXCEPT !.writes = @ + 1, !.scripted = FALSE,
                             !.op = "write", !.overflowed = FALSE,
                             !.key_irq = IF @ = "delivered" THEN "none"
                                         ELSE @])
    /\ UNCHANGED <<clk, timer, joypad, ppu, hdma, cart, cpu, mem>>

\* Gameboy::handle_keydown
HandleKeydown(key) ==
    /\ joypad' = JoypadKeydown(joypad, key)
    /\ obs' = [NoKeyEvent(obs) EXCEPT
                    !.op = "keydown", !.key_irq = "pending",
                    !.overflowed = FALSE, !.arg = key,
                    !.down = <<key, joypad.matrix>>]
    /\ UNCHANGED <<clk, timer, ppu, hdma, mmu, cart, cpu, mem>>

\* Gameboy::handle_keyup
HandleKeyup(key) ==
    /\ joypad' = JoypadKeyup(joypad, key)
    /\ obs' = [obs EXCEPT !.op = "keyup", !.overflowed = FALSE,
                          !.arg = key, !.down = <<>>,
                          !.prior = IF obs.down # <<>> /\ obs.down[1] = key
                                    THEN obs.down[2] ELSE -1,
                          !.pre_matrix = joypad.matrix,
                          !.pre_irq = joypad.interrupt,
                          !.pre_if = mmu.interrupts_asserted]
    /\ UNCHANGED <<clk, timer, ppu, hdma, mmu, cart, cpu, mem>>

JoypadRun(cycles) ==
    /\ obs.cpu_cycles + cycles <= MaxJoypadCycles
    /\ RunCycles(cycles)

JoypadNext ==
    \/ \E v \in {0, 16, 32, 48} : JoypadWrite(v)
    \/ WriteIF(0)
    \/ \E k \in HostKeys : HandleKeydown(k)
    \/ \E k \in HostKeys : HandleKeyup(k)
    \/ \E c \in StepCycles : JoypadRun(c)

JoypadSpec == TimerInit /\ [][JoypadNext]_vars

\* C9: with 0x20 written to 0xFF00, a read of 0xFF00 returns 0x2F while no
\* key is pressed and 0x27 while Down alone is pressed; and once an emulator
\* step has run after a key-down, bit 4 of IF is set.
C9_JoypadRead ==
    /\ (joypad.select = 32 /\ joypad.matrix = 255) =>
            JoypadGetByte(joypad) = 47
    /\ (joypad.select = 32 /\ joypad.matrix = 255 - KeyDown) =>
            JoypadGetByte(joypad) = 39
    /\ obs.key_irq = "delivered" =>
            BitAnd(mmu.interrupts_asserted, IntJoypad) # 0

\* Down went down with the direction row selected and a step has run.
C9_Witness ==
    /\ joypad.select = 32
    /\ joypad.matrix = 255 - KeyDown
    /\ obs.key_irq = "delivered"
    /\ obs.op = "run"

\* What a key-up does and leaves alone: it sets the key's bit in the matrix
\* and changes neither joypad.interrupt nor IF.
KeyupFrame ==
    obs.op = "keyup" =>
        /\ joypad.matrix = BitOr(obs.pre_matrix, obs.arg)
        /\ joypad.interrupt = obs.pre_irq
        /\ mmu.interrupts_asserted = obs.pre_if

\* C17 as stated: a key-up only sets the key's bit, it neither clears nor
\* raises a Joypad interrupt, and a key-down followed by the key-up of the
\* same key restores the matrix to its value before the key-down.
C17_Original ==
    /\ KeyupFrame
    /\ (obs.op = "keyup" /\ obs.prior >= 0) => joypad.matrix = obs.prior

\* C17, amended: a key-up only sets the key's bit and neither clears nor
\* raises a Joypad interrupt; a key-down followed by the key-up of the same
\* key restores the matrix to its value before the key-down if the key was
\* up then, and otherwise leaves the key's bit set where it was clear.
C17_Amended ==
    /\ KeyupFrame
    /\ (obs.op = "keyup" /\ obs.prior >= 0) =>
            /\ joypad.matrix = BitOr(obs.prior, obs.arg)
            /\ BitAnd(obs.prior, obs.arg) # 0 => joypad.matrix = obs.prior

\* A went down on the fresh joypad and up again, with the interrupt request
\* of the key-down still pending in the joypad.
C17_Witness ==
    /\ obs.op = "keyup"
    /\ obs.arg = 16
    /\ obs.prior = 255
    /\ obs.pre_matrix = 239
    /\ joypad.matrix = 255
    /\ obs.pre_irq = IntJoypad
    /\ joypad.interrupt = IntJoypad

-----------------------------------------------------------------------------
(* The PPU specification: the LCD stays enabled, the program starts VRAM   *)
(* DMA transfers through 0xFF55, and emulator steps deliver cycles.        *)

\* The cycles of one frame: 154 lines of 456 dots.
FrameCycles == 154 * 456

\* The instruction lengths this specification steps by.
PpuStepCycles == {8}

\* 0xFF55 values: a general-purpose transfer of 9 blocks, and an H-Blank
\* transfer of 1 block.
HdmaStarts == {8, 128}

\* Mmu::set_byte for 0xFF55
HdmaWrite(value) ==
    /\ obs.dmas < MaxGdma
    /\ hdma' = HdmaStart(hdma, value)
    /\ obs' = [obs EXCEPT !.dmas = @ + 1, !.op = "write",
                          !.overflowed = FALSE]
    /\ UNCHANGED <<clk, timer, joypad, ppu, mmu, cart, cpu, mem>>

PpuRun(cycles) ==
    /\ obs.ppu_cycles < MaxPpuCycles
    /\ RunCycles(cycles)

PpuNext ==
    \/ \E v \in HdmaStarts : HdmaWrite(v)
    \/ \E c \in PpuStepCycles : PpuRun(c)

\* The machine at reset, after the program has pointed the transfer engine
\* at the start of VRAM (0xFF53 <- 0x00); the source is the start of ROM.
PpuInit ==
    /\ timer = NewTimer
    /\ joypad = NewJoypad
    /\ ppu = NewPpu
    /\ hdma = HdmaSetByte(NewHdma, 65363, 0)
    /\ mmu = NewMmu
    /\ clk = NewClock(100)
    /\ cart = NewCart("RomOnly", 32768, 0)
    /\ cpu = NewCpu(FALSE)
    /\ mem = NewMem
    /\ obs = NewObs

PpuSpec == PpuInit /\ [][PpuNext]_vars

\* C1 as stated, for two windows of 70224 consecutive cycles delivered to the
\* PPU with the LCD enabled: the window that starts at reset and the window
\* that starts right after the first entry into V-Blank.  In each of them
\* the PPU enters V-Blank exactly once.
C1_OneVBlankPerFrame ==
    /\ HasBit7(ppu)
    /\ obs.ppu_cycles = FrameCycles => ppu.g_vblanks = 1
    /\ (obs.frame_start > 0
          /\ obs.ppu_cycles = obs.frame_start + FrameCycles)
            => ppu.g_vblanks = 2

\* A step delivers 80 cycles to the PPU (8 of an instruction and 72 of a
\* 9-block transfer) and the PPU does not move.
C1_Stalled ==
    /\ obs.op = "run"
    /\ hdma.g_blocks = 9
    /\ obs.frame_start > 0
    /\ obs.ppu_cycles = obs.frame_start + FrameCycles
    /\ ppu.g_vblanks = 1

-----------------------------------------------------------------------------
(* The screen specification: emulator steps, writes to LCDC and the        *)
(* frontend's polls of the screen-updated flag.  A run starts at reset or  *)
(* on line 143 of the first frame, 16 cycles before the PPU enters         *)
(* V-Blank, where 8206 steps of 8 cycles bring the machine from reset.     *)

ScreenOrigin == 143 * 456 + 440

ScreenStarts ==
    { [ppu |-> NewPpu, timer |-> NewTimer, cycles |-> 0],
      [ppu |-> [NewPpu EXCEPT !.lcdc_y = 143, !.dots = 440],
       timer |-> [NewTimer EXCEPT !.div = (ScreenOrigin \div 256) % 256,
                                  !.div_clock.num_cycles = ScreenOrigin % 256],
       cycles |-> ScreenOrigin] }

\* LCDC values the program writes: LCD off (0x11) and LCD on (0x91).
LcdcValues == {17, 145}

\* Mmu::set_byte for 0xFF40
LcdcWrite(value) ==
    /\ obs.writes < MaxBusWrites
    /\ ppu' = PpuSetByte(ppu, 65344, value)
    /\ obs' = NoKeyEvent(
                 [obs EXCEPT !.writes = @ + 1, !.scripted = FALSE,
                             !.op = "write", !.overflowed = FALSE,
                             !.disabled = @ \/ BitAnd(value, 128) = 0])
    /\ UNCHANGED <<clk, timer, joypad, hdma, mmu, cart, cpu, mem>>

\* Gameboy::has_screen_updated
HasScreenUpdated ==
    /\ ppu' = ScreenUpdatedReset(ppu)
    /\ obs' = NoKeyEvent(
                 [obs EXCEPT !.op = "has_screen_updated",
                             !.overflowed = FALSE,
                             !.result = ppu.vblank,
                             !.was_entered = obs.entered,
                             !.was_disabled = obs.disabled,
                             !.had_true = obs.seen_true,
                             !.seen_true = @ \/ ppu.vblank,
                             !.entered = FALSE, !.disabled = FALSE])
    /\ UNCHANGED <<clk, timer, joypad, hdma, mmu, cart, cpu, mem>>

ScreenRun(cycles) ==
    /\ \E st \in ScreenStarts :
            /\ st.cycles <= obs.ppu_cycles
            /\ obs.ppu_cycles + cycles <= st.cycles + MaxScreenCycles
    /\ RunCycles(cycles)

ScreenInit ==
    /\ \E st \in ScreenStarts :
            /\ ppu = st.ppu
            /\ timer = st.timer
            /\ obs = [NewObs EXCEPT !.ppu_cycles = st.cycles,
                                    !.cpu_cycles = st.cycles]
    /\ joypad = NewJoypad
    /\ hdma = NewHdma
    /\ mmu = NewMmu
    /\ clk = NewClock(100)
    /\ cart = NewCart("RomOnly", 32768, 0)
    /\ cpu = NewCpu(FALSE)
    /\ mem = NewMem

ScreenNext ==
    \/ \E v \in LcdcValues : LcdcWrite(v)
    \/ HasScreenUpdated
    \/ \E c \in PpuStepCycles : ScreenRun(c)

ScreenSpec == ScreenInit /\ [][ScreenNext]_vars

\* C14 as stated: a call of has_screen_updated made after the PPU entered
\* V-Blank returns true, and once a call has returned true, a later call
\* returns true only if the PPU has entered V-Blank since the call before.
C14_Original ==
    obs.op = "has_screen_updated" =>
        /\ obs.was_entered => obs.result
        /\ (obs.had_true /\ obs.result) => obs.was_entered

\* C14, amended: a call of has_screen_updated returns true exactly when,
\* since the call before it (or since the start), the PPU has entered
\* V-Blank or the LCD has been disabled by a write to LCDC with bit 7 clear.
C14_Amended ==
    obs.op = "has_screen_updated" =>
        (obs.result <=> (obs.was_entered \/ obs.was_disabled))

\* The PPU has entered V-Blank once, a call has returned true, and the call
\* after it, with the LCD enabled all along, has returned false.
C14_Witness ==
    /\ obs.op = "has_screen_updated"
    /\ obs.had_true
    /\ ~obs.result
    /\ ppu.g_vblanks = 1
    /\ ppu.mode = 1
    /\ HasBit7(ppu)
    /\ obs.writes = 0

-----------------------------------------------------------------------------
(* The palette specification: the program writes 0x80 to one of the CGB    *)
(* palette index registers, streams bytes into the matching data register, *)
(* and reads them back by setting the index and reading the data register. *)

PaletteValues == {0, 31, 128, 229}

\* Mmu::set_byte for 0xFF68 or 0xFF6A, value 0x80
PaletteStart(addr) ==
    /\ obs.pal = 0
    /\ ppu' = PpuSetByte(ppu, addr, 128)
    /\ obs' = NoKeyEvent([obs EXCEPT !.op = "write", !.pal = addr])
    /\ UNCHANGED <<clk, timer, joypad, hdma, mmu, cart, cpu, mem>>

\* Mmu::set_byte for the data register, 0xFF69 or 0xFF6B
PaletteWrite(value) ==
    /\ obs.pal # 0
    /\ ~obs.seeking
    /\ Len(obs.stream) < MaxStream
    /\ ppu' = PpuSetByte(ppu, obs.pal + 1, value)
    /\ obs' = NoKeyEvent([obs EXCEPT !.op = "write",
                                     !.stream = Append(@, value)])
    /\ UNCHANGED <<clk, timer, joypad, hdma, mmu, cart, cpu, mem>>

\* Mmu::set_byte for the index register, with an index already streamed
PaletteSeek(index) ==
    /\ obs.pal # 0
    /\ index < Len(obs.stream)
    /\ ppu' = PpuSetByte(ppu, obs.pal, index)
    /\ obs' = NoKeyEvent([obs EXCEPT !.op = "write", !.seeking = TRUE,
                                     !.read = <<>>])
    /\ UNCHANGED <<clk, timer, joypad, hdma, mmu, cart, cpu, mem>>

\* Mmu::get_byte for the index register and then for the data register
PaletteRead ==
    /\ obs.seeking
    /\ obs' = NoKeyEvent(
                 [obs EXCEPT !.op = "read",
                             !.read = <<PpuGetByte(ppu, obs.pal) % 64,
                                        PpuGetByte(ppu, obs.pal + 1)>>])
    /\ UNCHANGED <<clk, timer, joypad, ppu, hdma, mmu, cart, cpu, mem>>

PaletteNext ==
    \/ \E a \in {65384, 65386} : PaletteStart(a)
    \/ \E v \in PaletteValues : PaletteWrite(v)
    \/ \E i \in 0..(MaxStream - 1) : PaletteSeek(i)
    \/ PaletteRead

PaletteSpec == TimerInit /\ [][PaletteNext]_vars

\* C12 as stated: after 0x80 was written to a palette index register and a
\* stream of bytes to the matching data register, the data register read
\* at index i returns byte i of the stream.
C12_ReadBack ==
    (obs.op = "read" /\ obs.pal # 0) =>
        obs.read[2] = obs.stream[obs.read[1] + 1]

\* 0x00 and 0x80 were streamed into the background palette, and index 1
\* reads back 0x00.
C12_Bit15Lost ==
    /\ obs.op = "read"
    /\ obs.pal = 65384
    /\ obs.stream = <<0, 128>>
    /\ obs.read = <<1, 0>>

-----------------------------------------------------------------------------
(* The cartridge specification: a cartridge of any supported type, and the *)
(* program's reads and writes of the cartridge windows of the bus.         *)

\* Cartridges accepted by cartridges::new: type, ROM bytes, RAM bytes.
CartConfigs ==
    { NewCart("RomOnly", 32768, 0),
      NewCart("Mbc1", 128 * 16384, 32768),
      NewCart("Mbc1", 4 * 16384, 2048),
      NewCart("Mbc2", 16 * 16384, 512),
      NewCart("Mbc3", 128 * 16384, 32768),
      NewCart("Mbc5", 512 * 16384, 131072) }

CartWriteAddrs == {0, 8448, 12288, 16384, 24576, 40960, 43008}

CartReadAddrs == {0, 16384, 32767, 40960, 43008}

CartValues == {0, 1, 5, 10, 165}

\* Seconds between RealTimeClock::new and a latch.
Elapsed == {0, 90061, 22118461}

\* A write that latches the clock of an MBC3.
IsLatch(c, addr, value) ==
    c.kind = "Mbc3" /\ InRange(addr, 24576, 32767) /\ BitAnd(value, 1) # 0

\* Mmu::set_byte for 0x0000..=0x7FFF and 0xA000..=0xBFFF
CartWrite(addr, value, d) ==
    /\ ~cart.aborted
    /\ obs.writes < MaxCartWrites
    /\ cart' = CartSetByte(cart, addr, value, d)
    /\ obs' = [obs EXCEPT !.writes = @ + 1, !.scripted = FALSE,
                          !.op = "write",
                          !.wrote = IF InRange(addr, 40960, 49151)
                                    THEN <<addr, value>> ELSE <<>>,
                          !.read = <<>>,
                          !.v1 = IF InRange(addr, 8192, 16383)
                                 THEN value ELSE @,
                          !.v2 = IF InRange(addr, 16384, 24575)
                                 THEN value ELSE @,
                          !.latch = IF IsLatch(cart, addr, value)
                                    THEN <<d, cart'.rtc>> ELSE <<>>,
                          !.relatch =
                              IF /\ IsLatch(cart, addr, value)
                                 /\ obs.latch # <<>>
                                 /\ obs.latch[1] = d
                              THEN <<obs.latch[2]>> ELSE <<>>]
    /\ UNCHANGED <<clk, timer, joypad, ppu, hdma, mmu, cpu, mem>>

\* Mmu::get_byte for 0x0000..=0x7FFF and 0xA000..=0xBFFF
CartRead(addr) ==
    /\ ~cart.aborted
    /\ LET value == CartGetByte(cart, addr)
       IN  /\ cart' = [cart EXCEPT !.aborted = (value = Abort)]
           /\ obs' = [obs EXCEPT !.op = "read",
                                 !.read = <<addr, value>>,
                                 !.wrote = IF @ # <<>> /\ @[1] = addr
                                           THEN @ ELSE <<>>,
                                 !.latch = <<>>, !.relatch = <<>>]
    /\ UNCHANGED <<clk, timer, joypad, ppu, hdma, mmu, cpu, mem>>

CartInit ==
    /\ InitDevices
    /\ cart \in CartConfigs
    /\ cpu = NewCpu(FALSE)
    /\ mem = NewMem
    /\ obs = NewObs

CartNext ==
    \/ \E a \in CartWriteAddrs, v \in CartValues, d \in Elapsed :
            CartWrite(a, v, d)
    \/ \E a \in CartReadAddrs : CartRead(a)

CartSpec == CartInit /\ [][CartNext]_vars

\* A read of the RAM window directly follows a write of the same address,
\* with RAM enabled.
ReadBack ==
    /\ obs.read # <<>>
    /\ obs.wrote # <<>>
    /\ obs.wrote[1] = obs.read[1]
    /\ cart.ram_enabled

C6_RomUnchanged ==
    /\ cart.rom_patch = EmptyStore
    /\ (obs.read # <<>> /\ obs.read[1] <= 16383 /\ ~cart.aborted)
            => obs.read[2] = RomImage(obs.read[1])

\* A ROM-only cartridge has been written in the ROM window and then read.
C6_Witness ==
    /\ cart.kind = "RomOnly"
    /\ obs.writes >= 3
    /\ obs.v1 >= 0
    /\ obs.v2 >= 0
    /\ obs.read # <<>>
    /\ obs.read[1] = 0

\* The bank C7 computes from the two values written.
C7_Bank(v1, v2) ==
    LET low5 == IF v1 % 32 = 0 THEN 1 ELSE v1 % 32
    IN  (v2 % 4) * 32 + low5

\* C7: on MBC1 in ROM mode, after v1 was written to 0x2000-0x3FFF and v2 to
\* 0x4000-0x5FFF, a read of a in 0x4000-0x7FFF inside the ROM image returns
\* rom[bank * 0x4000 + (a - 0x4000)] with bank = ((v2 & 3) << 5) | low5, and
\* a read in 0x0000-0x3FFF returns rom[a].
C7_Mbc1RomRead ==
    (cart.kind = "Mbc1" /\ cart.bank_mode = "Rom" /\ obs.read # <<>>
        /\ obs.v1 >= 0 /\ obs.v2 >= 0) =>
        /\ obs.read[1] <= 16383 => obs.read[2] = RomImage(obs.read[1])
        /\ (InRange(obs.read[1], 16384, 32767)
              /\ C7_Bank(obs.v1, obs.v2) * 16384 + obs.read[1] - 16384
                    < cart.rom_len)
            => obs.read[2] = RomImage(C7_Bank(obs.v1, obs.v2) * 16384
                                        + obs.read[1] - 16384)

\* The scenario of the spec: 0x05 and 0x01 select bank 0x25 of 128.
C7_Witness ==
    /\ cart.kind = "Mbc1"
    /\ cart.bank_mode = "Rom"
    /\ cart.rom_len = 128 * 16384
    /\ cart.ram_enabled
    /\ obs.writes = 4
    /\ obs.v1 = 5
    /\ obs.v2 = 1
    /\ obs.read = <<16384, RomImage(37 * 16384)>>

\* C15: on MBC3, a latch write that directly follows a latch write, with
\* no wall-clock time passing between the two, leaves S, M, H, DL and DH as
\* the first latch left them.
C15_LatchTwice ==
    obs.relatch # <<>> =>
        /\ cart.rtc.s = obs.relatch[1].s
        /\ cart.rtc.m = obs.relatch[1].m
        /\ cart.rtc.h = obs.relatch[1].h
        /\ cart.rtc.dl = obs.relatch[1].dl
        /\ cart.rtc.dh = obs.relatch[1].dh

\* The clock has been latched twice 256 days, one minute and one second
\* after its zero: the day counter has carried into DH.
C15_Witness ==
    /\ obs.relatch # <<>>
    /\ obs.latch[1] = 22118461
    /\ cart.rtc = [s |-> 1, m |-> 1, h |-> 0, dl |-> 0, dh |-> 1]

-----------------------------------------------------------------------------
(* The OAM DMA specification: a cartridge of any supported type, fresh     *)
(* from construction, and the program's writes to 0xFF46.                  *)

\* Source pages: ROM, VRAM, cartridge RAM, WRAM, the last page accepted,
\* the first page refused, and the last page.
DmaPages == {0, 64, 128, 160, 192, 241, 242, 255}

\* Mmu::set_byte for 0xFF46
OamDmaWrite(value) ==
    /\ ~mmu.aborted
    /\ obs.writes < MaxDmaWrites
    /\ LET r == OamDma(cart, ppu, value)
       IN  /\ ppu' = r.ppu
           /\ mmu' = [mmu EXCEPT !.aborted = r.aborted]
    /\ obs' = NoKeyEvent([obs EXCEPT !.writes = @ + 1, !.scripted = FALSE,
                                     !.op = "dma", !.overflowed = FALSE,
                                     !.code = value])
    /\ UNCHANGED <<clk, timer, joypad, hdma, cart, cpu, mem>>

DmaNext == \E v \in DmaPages : OamDmaWrite(v)

DmaSpec == CartInit /\ [][DmaNext]_vars

\* C13 as stated: a write of v to 0xFF46 completes without aborting for
\* every v <= 0xF1 and aborts the process for every v >= 0xF2.
C13_DmaAccepted ==
    obs.op = "dma" => (mmu.aborted <=> obs.code >= 242)

\* On a ROM-only cartridge of 32 KiB, the write of 0xA0 has aborted the
\* process.
C13_RomOnlyAborts ==
    /\ obs.op = "dma"
    /\ obs.code = 160
    /\ cart.kind = "RomOnly"
    /\ cart.rom_len = 32768
    /\ mmu.aborted

-----------------------------------------------------------------------------
(* The CPU specification: CPU steps on a flat memory, and writes to AF and *)
(* to the flags through the register interface.  CPU.registers, CPU.ei and *)
(* the fields pc and sp are public, so a run starts with PC and SP at the  *)
(* ends of the address space as well as at their reset values.             *)

StartPcs == {256, 65534, 65535}

StartSps == {65534, 0, 1}

\* What the environment supplies to a step.
Envs ==
    [code : {0, 16, 55, 118, 197, 211, 243, 245, 251},
     imm : {0}, lo : {0}, hi : {0}, iflag : {0, 5}, ie : {4}]
    \cup [code : {32}, imm : {2, 254}, lo : {0}, hi : {0},
          iflag : {0, 5}, ie : {4}]
    \cup [code : {193, 217, 241}, imm : {0}, lo : {255}, hi : {18},
          iflag : {0, 5}, ie : {4}]
    \cup [code : {203}, imm : CbCodes, lo : {129}, hi : {0},
          iflag : {0, 5}, ie : {4}]

\* CPU::run
CpuRun(env) ==
    /\ cpu.panic = ""
    /\ obs.ops < MaxCpuOps
    /\ LET r == Run([cpu |-> cpu, mem |-> mem, val |-> 0,
                     code |-> -1, cb |-> -1], env)
       IN  /\ r.code \in OpCodes \cup {-1}
           /\ r.cb \in CbCodes \cup {-1}
           /\ cpu' = r.cpu
           /\ mem' = r.mem
           /\ obs' = [obs EXCEPT !.ops = @ + 1, !.op = "run",
                                 !.cycles = IF Live(r) THEN r.val ELSE -1,
                                 !.pre_pc = cpu.pc, !.pre_sp = cpu.sp,
                                 !.code = r.code, !.cb = r.cb,
                                 !.pushed =
                                     IF r.code = 197
                                     THEN <<197, Bc(cpu), cpu.sp>>
                                     ELSE IF r.code = 245
                                     THEN <<245, Af(cpu), cpu.sp>>
                                     ELSE <<>>,
                                 !.popped =
                                     IF /\ obs.pushed # <<>>
                                        /\ r.code = obs.pushed[1] - 4
                                     THEN obs.pushed ELSE <<>>,
                                 !.pre_ei = cpu.ei,
                                 !.pre_halted = cpu.halted,
                                 !.irq_if =
                                     Peek(mem, 65295,
                                          IF cpu.halted \/ cpu.ei
                                          THEN env.iflag ELSE -1),
                                 !.irq_ie =
                                     Peek(mem, 65535,
                                          IF cpu.halted \/ cpu.ei
                                          THEN env.ie ELSE -1)]
    /\ UNCHANGED <<clk, timer, joypad, ppu, hdma, mmu, cart>>

\* Registers::set_af called on cpu.registers
RegSetAf(value) ==
    /\ cpu.panic = ""
    /\ obs.ops < MaxCpuOps
    /\ cpu' = SetAf(cpu, value)
    /\ obs' = NoCpuEvent([obs EXCEPT !.ops = @ + 1, !.op = "set_af",
                                     !.arg = value])
    /\ UNCHANGED <<clk, timer, joypad, ppu, hdma, mmu, cart, mem>>

\* Registers::set_flag called on cpu.registers
RegSetFlag(mask, set) ==
    /\ cpu.panic = ""
    /\ obs.ops < MaxCpuOps
    /\ cpu' = SetFlag(cpu, mask, set)
    /\ obs' = NoCpuEvent([obs EXCEPT !.ops = @ + 1, !.op = "set_flag",
                                     !.arg = mask])
    /\ UNCHANGED <<clk, timer, joypad, ppu, hdma, mmu, cart, mem>>

CpuInit ==
    /\ InitDevices
    /\ cart = NewCart("RomOnly", 32768, 0)
    /\ \E chk \in BOOLEAN, pc \in StartPcs, sp \in StartSps, ei \in BOOLEAN :
            cpu = [NewCpu(chk) EXCEPT !.pc = pc, !.sp = sp, !.ei = ei]
    /\ mem = NewMem
    /\ obs = NewObs

CpuNext ==
    \/ \E env \in Envs : CpuRun(env)
    \/ \E value \in {0, 4863, 65295} : RegSetAf(value)
    \/ \E mask \in {FlagZ, FlagN, FlagH, FlagC}, set \in BOOLEAN :
            RegSetFlag(mask, set)

CpuSpec == CpuInit /\ [][CpuNext]_vars

\* C3 as stated: a step that executes a non-fatal opcode returns four times
\* its entry of OP_CYCLES or CB_CYCLES (JR NZ: 8 untaken, 12 taken); a step
\* that executes NOP returns 4.
C3_StepCycles ==
    (obs.op = "run" /\ obs.code \in OpCodes \ {211}) =>
        /\ cpu.panic = ""
        /\ obs.cycles = IF obs.code = 203 THEN 4 * CbCycles(obs.cb)
                        ELSE IF obs.code = 32 /\ obs.cycles = 12 THEN 12
                        ELSE 4 * OpCycles(obs.code)

\* A step has fetched NOP at the reset PC and the process has panicked
\* after the match of CPU::execute.
C3_NopPanics ==
    /\ obs.op = "run"
    /\ obs.code = 0
    /\ obs.pre_pc = 256
    /\ cpu.pc = 257
    /\ cpu.panic = "cpu: num cycles returned not implemented"

\* C4: after any sequence of CPU steps and of writes to AF and to the flags
\* through the register interface, the low four bits of F are zero.
C4_LowNibbleZero == BitAnd(cpu.f, 15) = 0

\* AF has been written with a value whose low nibble is not zero, after a
\* POP AF-free prefix of other operations.
C4_Witness ==
    /\ obs.op = "set_af"
    /\ obs.arg = 4863
    /\ cpu.a = 18
    /\ cpu.f = 240
    /\ obs.ops >= 2

\* C11 as stated: with SP in writable RAM, PUSH BC or PUSH AF leaves the
\* process running for the POP that follows, and the POP of the same pair
\* that directly follows restores the pair (AF with the low nibble of F
\* zero) and SP to the values they had before the PUSH.
C11_PushPop ==
    /\ (obs.op = "run" /\ obs.pushed # <<>>
            /\ InRange(obs.pushed[3], 49154, 65534)) =>
            cpu.panic = ""
    /\ (obs.op = "run" /\ obs.popped # <<>>
            /\ InRange(obs.popped[3], 49154, 65534)) =>
            /\ cpu.panic = ""
            /\ cpu.sp = obs.popped[3]
            /\ IF obs.popped[1] = 197 THEN Bc(cpu) = obs.popped[2]
               ELSE Af(cpu) = obs.popped[2] /\ BitAnd(cpu.f, 15) = 0

\* PUSH BC at the reset values of SP and BC has stored BC at 0xFFFC and the
\* process has panicked after the match of CPU::execute, before any POP.
C11_PushBcPanics ==
    /\ obs.op = "run"
    /\ obs.pushed = <<197, 19, 65534>>
    /\ cpu.sp = 65532
    /\ Load(mem, 65532) = 19
    /\ Load(mem, 65533) = 0
    /\ cpu.panic = "cpu: num cycles returned not implemented"

OverflowPanics ==
    {"attempt to add with overflow", "attempt to subtract with overflow"}

\* C10 as stated, as far as the arithmetic goes: PUSH BC executed with
\* SP = 0x0000 does not abort on the subtraction and leaves SP = 0xFFFE; a
\* step that fetches NOP at PC = 0xFFFF does not abort on the addition and
\* leaves PC = 0x0000.
C10_Wraps ==
    /\ (obs.op = "run" /\ obs.code = 197 /\ obs.pre_sp = 0
            /\ obs.pre_pc < 65535) =>
            (cpu.panic \notin OverflowPanics /\ cpu.sp = 65534)
    /\ (obs.op = "run" /\ obs.code = 0 /\ obs.pre_pc = 65535) =>
            (cpu.panic \notin OverflowPanics /\ cpu.pc = 0)

\* PUSH BC with SP = 0x0000 in a build with overflow checks: the process has
\* panicked in add_to_stack and SP is still 0x0000.
C10_PushPanics ==
    /\ obs.op = "run"
    /\ obs.code = 197
    /\ obs.pre_sp = 0
    /\ cpu.sp = 0
    /\ cpu.panic = "attempt to subtract with overflow"

-----------------------------------------------------------------------------
(* The interrupt specification: CPU steps on the bus of the machine, where *)
(* IF and IE hold 0 after Mmu::new, and the program's bus writes to IF and *)
(* IE.  CPU.ei and CPU.halted are public fields, so a run starts with      *)
(* either value of both.                                                   *)

\* Bytes written to IF and IE.
IrqValues == {0, 5, 32, 255}

\* The program at the reset PC and at the vectors: SWAP A, NOP, HALT, RETI,
\* EI.
IrqEnvs ==
    [code : {203}, imm : {55}, lo : {0}, hi : {0}, iflag : {0}, ie : {0}]
    \cup [code : {0, 118, 217, 251}, imm : {0}, lo : {0}, hi : {1},
          iflag : {0}, ie : {0}]

\* Mmu::set_byte for 0xFF0F and 0xFFFF
IrqWrite(addr, value) ==
    /\ cpu.panic = ""
    /\ obs.writes < MaxIrqWrites
    /\ mem' = Store(mem, addr, value)
    /\ obs' = NoCpuEvent([obs EXCEPT !.writes = @ + 1, !.op = "bus_write",
                                     !.arg = value])
    /\ UNCHANGED <<clk, timer, joypad, ppu, hdma, mmu, cart, cpu>>

IrqInit ==
    /\ InitDevices
    /\ cart = NewCart("RomOnly", 32768, 0)
    /\ \E chk \in BOOLEAN, sp \in {65534, 0}, ei \in BOOLEAN,
          halted \in BOOLEAN :
            cpu = [NewCpu(chk) EXCEPT !.sp = sp, !.ei = ei,
                                      !.halted = halted]
    /\ mem = Store(Store(NewMem, 65295, mmu.interrupts_asserted),
                   65535, mmu.interrupts_enabled)
    /\ obs = NewObs

IrqNext ==
    \/ \E env \in IrqEnvs : CpuRun(env)
    \/ \E addr \in {65295, 65535}, value \in IrqValues : IrqWrite(addr, value)

IrqSpec == IrqInit /\ [][IrqNext]_vars

\* The last operation was a CPU::run that found ime set and IF & IE != 0.
Dispatched ==
    /\ obs.op = "run"
    /\ obs.pre_ei
    /\ BitAnd(obs.irq_if, obs.irq_ie) # 0

\* The lowest-numbered bit set in the IF & IE that run found.
Serviced == TrailingZeros(BitAnd(obs.irq_if, obs.irq_ie))

\* C18 as stated: whenever an interrupt is dispatched, exactly the lowest-
\* numbered bit n set in IF & IE is cleared in IF, ime is cleared, the
\* pre-dispatch PC is pushed on the stack and PC becomes 0x0040 + 8n.
C18_Dispatch ==
    Dispatched =>
        /\ Load(mem, 65295) = obs.irq_if - 2 ^ Serviced
        /\ ~cpu.ei
        /\ cpu.sp = (obs.pre_sp + 65534) % 65536
        /\ Load(mem, cpu.sp) + 256 * Load(mem, (cpu.sp + 1) % 65536)
                = obs.pre_pc
        /\ cpu.pc = 64 + 8 * Serviced

\* A dispatch with SP = 0x0000 in a build with overflow checks: the bit is
\* cleared in IF and ime is cleared, and the process has panicked in
\* add_to_stack with nothing pushed and PC where it was.
C18_DispatchPanics ==
    /\ Dispatched
    /\ obs.pre_sp = 0
    /\ cpu.sp = 0
    /\ cpu.pc = obs.pre_pc
    /\ ~cpu.ei
    /\ Load(mem, 65295) = obs.irq_if - 2 ^ Serviced
    /\ cpu.panic = "attempt to subtract with overflow"

\* 0x0040 VBlank, 0x0048 LCDStat, 0x0050 Timer, 0x0058 Serial, 0x0060 Joypad
Vectors == {64, 72, 80, 88, 96}

\* C19 as stated: after any bus writes to IF and IE, every dispatch that
\* completes jumps to one of the five vectors.
C19_Vectors == (Dispatched /\ cpu.panic = "") => cpu.pc \in Vectors

\* IF = 0x20 and IE = 0xFF were written, and the dispatch has serviced
\* bit 5 and jumped to 0x0068.
C19_Vector68 ==
    /\ Dispatched
    /\ obs.irq_if = 32
    /\ obs.irq_ie = 255
    /\ Load(mem, 65295) = 0
    /\ cpu.pc = 104
    /\ cpu.panic = ""

\* C20: a CPU::run that starts with ime false dispatches nothing, whatever
\* is pending: it leaves IF as it was, it either fetches no opcode and
\* leaves PC and SP alone or executes the opcode at the PC it started with,
\* and it leaves ime false unless the opcode is EI or RETI.
C20_NoDispatch ==
    (obs.op = "run" /\ ~obs.pre_ei) =>
        /\ Peek(mem, 65295, -1) = obs.irq_if
        /\ obs.code = -1 => (cpu.pc = obs.pre_pc /\ cpu.sp = obs.pre_sp)
        /\ obs.code # -1 => Load(mem, obs.pre_pc) = obs.code
        /\ obs.code \notin {-1, 193, 197, 217, 241, 245} =>
                cpu.sp = obs.pre_sp
        /\ cpu.ei => obs.code \in {217, 251}

\* A dispatch has pushed the reset PC, jumped to 0x0040 and cleared ime;
\* the next CPU::run has executed SWAP A there with IF & IE still pending.
C20_Witness ==
    /\ obs.op = "run"
    /\ ~obs.pre_ei
    /\ obs.pre_pc = 64
    /\ obs.pre_sp = 65532
    /\ Load(mem, 65532) + 256 * Load(mem, 65533) = 256
    /\ BitAnd(Load(mem, 65295), Load(mem, 65535)) # 0
    /\ obs.code = 203
    /\ cpu.pc = 66
    /\ ~cpu.ei
    /\ cpu.panic = ""

\* C21 as stated: a CPU::run that dispatches an interrupt and completes
\* returns 16 master-clock cycles.
C21_DispatchCycles == (Dispatched /\ cpu.panic = "") => obs.cycles = 16

\* A dispatch from the reset PC has jumped to 0x0040 and CPU::run has
\* returned 4.
C21_Returns4 ==
    /\ Dispatched
    /\ obs.pre_pc = 256
    /\ cpu.pc = 64
    /\ cpu.panic = ""
    /\ obs.cycles = 4

\* C22 as stated: a step that executes HALT leaves the CPU halted and
\* running; a step that begins halted with IF & IE = 0 costs 4 master
\* cycles, fetches nothing and leaves PC, SP and halted alone; a step that
\* begins halted with IF & IE != 0 leaves the halted state (and may execute
\* a HALT of its own).
C22_Halt ==
    /\ (obs.op = "run" /\ obs.code = 118) =>
            (cpu.halted /\ cpu.panic = "")
    /\ (obs.op = "run" /\ obs.pre_halted) =>
            IF BitAnd(obs.irq_if, obs.irq_ie) = 0
            THEN /\ cpu.halted
                 /\ obs.cycles = 4
                 /\ obs.code = -1
                 /\ cpu.pc = obs.pre_pc
                 /\ cpu.sp = obs.pre_sp
            ELSE ~cpu.halted \/ obs.code = 118

\* HALT fetched at the reset PC has set halted, and the process has
\* panicked after the match of CPU::execute.
C22_HaltPanics ==
    /\ obs.op = "run"
    /\ obs.code = 118
    /\ obs.pre_pc = 256
    /\ ~obs.pre_halted
    /\ cpu.halted
    /\ cpu.panic = "cpu: num cycles returned not implemented"

-----------------------------------------------------------------------------
(* The step specification: Gameboy::step on the whole machine, the         *)
(* program's bus writes to the timer, IF, IE and KEY1, and key presses.    *)
(* The CPU reads IF and IE through the bus, so mem holds the MMU's IF and  *)
(* IE at 0xFF0F and 0xFFFF whenever the CPU runs.  A run starts at reset,  *)
(* 16 cycles before the first V-Blank, or at reset with the timer set to   *)
(* overflow after 16 cycles, with either value of the public fields CPU.ei *)
(* and CPU.halted.                                                         *)

\* The PPU and the timer a run starts with.  In the last, the program has
\* written TAC = 5 (enabled, period 16) and then TIMA = 0xFF.
StepStarts ==
    {[ppu |-> st.ppu, timer |-> st.timer] : st \in ScreenStarts}
    \cup {[ppu |-> NewPpu,
           timer |-> TimerSetByte(TimerSetByte(NewTimer, 65287, 5),
                                  65285, 255)]}

\* IF = 0x02, IE = 0x07, KEY1 = 1.
StepWrites == {<<65295, 2>>, <<65535, 7>>, <<65357, 1>>}

\* The program: SWAP A and STOP.
StepEnvs ==
    [code : {16, 203}, imm : {55}, lo : {0}, hi : {0}, iflag : {0},
     ie : {0}]

\* What one Gameboy::step leaves: r is what cpu.run() returned, mmu2 the
\* machine with the IF and IE the CPU has left, d what mmu.run_cycles
\* returned.
StepCommit(r, mmu2, d) ==
    /\ r.code \in OpCodes \cup {-1}
    /\ r.cb \in CbCodes \cup {-1}
    /\ cpu' = r.cpu
    /\ IF Live(r)
       THEN /\ timer' = d.timer
            /\ joypad' = d.joypad
            /\ ppu' = d.ppu
            /\ hdma' = d.hdma
            /\ mmu' = d.mmu
            /\ mem' = Store(r.mem, 65295, d.mmu.interrupts_asserted)
       ELSE /\ mmu' = mmu2
            /\ mem' = r.mem
            /\ UNCHANGED <<timer, joypad, ppu, hdma>>
    /\ obs' = NoKeyEvent(
                 [obs EXCEPT
                     !.ops = @ + 1, !.op = "step",
                     !.cycles = IF Live(r) THEN r.val ELSE -1,
                     !.pre_pc = cpu.pc, !.pre_sp = cpu.sp,
                     !.code = r.code, !.cb = r.cb,
                     !.pre_ei = cpu.ei, !.pre_halted = cpu.halted,
                     !.irq_if = mmu.interrupts_asserted,
                     !.irq_ie = mmu.interrupts_enabled,
                     !.step =
                         [speed |-> mmu.speed,
                          armed |-> mmu.prepare_speed_switch,
                          if_cpu |-> mmu2.interrupts_asserted,
                          joy |-> joypad.interrupt,
                          overflowed |->
                              /\ Live(r)
                              /\ d.timer.g_overflows > timer.g_overflows,
                          vblanked |->
                              /\ Live(r)
                              /\ d.ppu.g_vblanks > ppu.g_vblanks,
                          dma |-> hdma.active,
                          timer_adv |-> IF Live(r) THEN d.cpu_cycles ELSE 0,
                          ppu_adv |-> IF Live(r) THEN d.ppu_cycles ELSE 0]])
    /\ UNCHANGED <<clk, cart>>

\* The second half of Gameboy::step: mmu.run_cycles(cycles) on the machine
\* with the IF and IE the CPU has left, mmu2.
StepForward(r, mmu2) ==
    StepCommit(r, mmu2, MmuRunCycles([Devices EXCEPT !.mmu = mmu2], r.val))

\* cpu.run() has returned r; mmu1 is the machine before it ran.
StepRan(r, mmu1) ==
    StepForward(r, [mmu1 EXCEPT
                       !.interrupts_asserted = Load(r.mem, 65295),
                       !.interrupts_enabled = Load(r.mem, 65535)])

\* Gameboy::step from the speed switch on, byte being the byte at PC and m0
\* the memory the CPU sees.
StepFetched(env, m0, byte) ==
    StepRan(Run([cpu |-> cpu, mem |-> Store(m0, cpu.pc, byte), val |-> 0,
                 code |-> -1, cb |-> -1], env),
            IF byte = 16 THEN PerformSpeedSwitch(mmu) ELSE mmu)

\* Gameboy::step, m0 being the memory the CPU sees: IF and IE are the
\* fields of the machine.
StepOn(env, m0) == StepFetched(env, m0, Peek(m0, cpu.pc, env.code))

\* Gameboy::step
Step(env) ==
    /\ cpu.panic = ""
    /\ obs.ops < MaxSteps
    /\ StepOn(env, Store(Store(mem, 65295, mmu.interrupts_asserted),
                         65535, mmu.interrupts_enabled))

\* Mmu::set_byte called by the program
StepWrite(addr, value) ==
    /\ cpu.panic = ""
    /\ obs.writes < MaxStepWrites
    /\ LET d == MmuSetByte(Devices, addr, value)
       IN  /\ timer' = d.timer
           /\ ppu' = d.ppu
           /\ mmu' = d.mmu
    /\ obs' = NoCpuEvent(NoKeyEvent(
                 [obs EXCEPT !.writes = @ + 1, !.op = "bus_write",
                             !.step = NoStep]))
    /\ UNCHANGED <<clk, joypad, hdma, cart, cpu, mem>>

\* Gameboy::handle_keydown
StepKeydown(key) ==
    /\ cpu.panic = ""
    /\ joypad' = JoypadKeydown(joypad, key)
    /\ obs' = NoCpuEvent(NoKeyEvent([obs EXCEPT !.op = "keydown",
                                                !.step = NoStep]))
    /\ UNCHANGED <<clk, timer, ppu, hdma, mmu, cart, cpu, mem>>

StepInit ==
    /\ \E st \in StepStarts :
            /\ ppu = st.ppu
            /\ timer = st.timer
    /\ joypad = NewJoypad
    /\ hdma = NewHdma
    /\ mmu = NewMmu
    /\ clk = NewClock(100)
    /\ cart = NewCart("RomOnly", 32768, 0)
    /\ \E ei \in BOOLEAN, halted \in BOOLEAN :
            cpu = [NewCpu(FALSE) EXCEPT !.ei = ei, !.halted = halted]
    /\ mem = NewMem
    /\ obs = NewObs

StepNext ==
    \/ \E env \in StepEnvs : Step(env)
    \/ \E w \in StepWrites : StepWrite(w[1], w[2])
    \/ StepKeydown(KeyDown)

StepSpec == StepInit /\ [][StepNext]_vars

\* The last operation was a Gameboy::step that completed.
Stepped == obs.op = "step" /\ cpu.panic = ""

\* C23: at the end of every step the interrupt fields of the timer, the
\* joypad, the PPU and the serial port are zero, IF holds the Timer bit if
\* the timer overflowed in the step, the V-Blank bit if the PPU entered
\* V-Blank in it and every bit the joypad had raised before it, and IF
\* keeps every bit it held when CPU::run returned.
C23_Aggregated ==
    Stepped =>
        /\ timer.interrupt = 0
        /\ joypad.interrupt = 0
        /\ ppu.interrupt = 0
        /\ mmu.serial_interrupt = 0
        /\ obs.step.overflowed =>
                BitAnd(mmu.interrupts_asserted, IntTimer) # 0
        /\ obs.step.vblanked =>
                BitAnd(mmu.interrupts_asserted, IntVBlank) # 0
        /\ BitAnd(mmu.interrupts_asserted, obs.step.joy) = obs.step.joy
        /\ BitAnd(mmu.interrupts_asserted, obs.step.if_cpu)
                = obs.step.if_cpu

\* A step in which the timer overflowed, with a key pressed before it and
\* bit 1 of IF set by the program: IF holds the three bits.
C23_Witness ==
    /\ Stepped
    /\ obs.step.overflowed
    /\ obs.step.joy = IntJoypad
    /\ obs.step.if_cpu = 2
    /\ mmu.interrupts_asserted = 2 + IntTimer + IntJoypad
    /\ joypad.interrupt = 0
    /\ timer.interrupt = 0

\* C24 as stated: the speed or the armed flag changes only in a step in
\* which the CPU executes STOP, and the speed only if a switch was armed.
C24_SpeedOnlyAtStop ==
    obs.op = "step" =>
        /\ (mmu.speed # obs.step.speed
                \/ mmu.prepare_speed_switch # obs.step.armed) =>
                obs.code = 16
        /\ mmu.speed # obs.step.speed => obs.step.armed

\* A step that began halted with a switch armed and STOP at PC: the CPU
\* fetched nothing and is still halted, and the speed is Double.
C24_SwitchWhileHalted ==
    /\ Stepped
    /\ obs.pre_halted
    /\ cpu.halted
    /\ obs.code = -1
    /\ cpu.pc = obs.pre_pc
    /\ Load(mem, cpu.pc) = 16
    /\ obs.step.armed
    /\ obs.step.speed = 1
    /\ mmu.speed = 2
    /\ ~mmu.prepare_speed_switch

\* C25 as stated: in a step of c cycles with no DMA active, the timer is
\* advanced by c times the speed factor and the PPU by c divided by it.
C25_Original ==
    (Stepped /\ ~obs.step.dma) =>
        /\ obs.step.timer_adv = obs.cycles * mmu.speed
        /\ obs.step.ppu_adv = obs.cycles \div mmu.speed

\* C25 amended: in a step of c cycles with no DMA active, the timer is
\* advanced by c and the PPU by c divided by the speed factor.
C25_Amended ==
    (Stepped /\ ~obs.step.dma) =>
        /\ obs.step.timer_adv = obs.cycles
        /\ obs.step.ppu_adv = obs.cycles \div mmu.speed

\* A halted step of 4 cycles in Double speed: 4 cycles to the timer, 2 to
\* the PPU.
C25_Witness ==
    /\ Stepped
    /\ ~obs.step.dma
    /\ obs.step.speed = 2
    /\ mmu.speed = 2
    /\ obs.cycles = 4
    /\ obs.step.timer_adv = 4
    /\ obs.step.ppu_adv = 2

-----------------------------------------------------------------------------
(* The VRAM DMA specification: the transfer engine programmed through     *)
(* 0xFF51 to 0xFF54, writes to 0xFF55 and to LCDC, and emulator steps.  A  *)
(* run starts on line 0 or on line 143, 8 dots before the PPU enters       *)
(* H-Blank, where 31 and 8182 steps of 8 cycles bring the machine from     *)
(* reset.                                                                  *)

\* H-Blank starts after dot 252 of a line.
HdmaOrigins == {248, 143 * 456 + 248}

HdmaStartsAt(origin) ==
    [ppu |-> [NewPpu EXCEPT !.lcdc_y = origin \div 456,
                            !.dots = origin % 456, !.mode = 3],
     timer |-> [NewTimer EXCEPT !.div = (origin \div 256) % 256,
                                !.div_clock.num_cycles = origin % 256]]

\* Writes to 0xFF51 to 0xFF54 that program a source and a destination.
HdmaPrograms ==
    { <<>>,
      <<<<65363, 0>>>>,
      <<<<65363, 31>>, <<65364, 240>>>>,
      <<<<65361, 255>>, <<65362, 240>>, <<65363, 0>>>>,
      <<<<65361, 160>>, <<65363, 0>>>> }

RECURSIVE HdmaProgrammed(_, _)
HdmaProgrammed(h, ws) ==
    IF ws = <<>> THEN h
    ELSE HdmaProgrammed(HdmaSetByte(h, Head(ws)[1], Head(ws)[2]), Tail(ws))

\* 0xFF55 values: stop an H-Blank transfer or start a general-purpose one
\* of 1 block, a general-purpose transfer of 2 blocks, and an H-Blank
\* transfer of 2 blocks.
HdmaValues == {0, 1, 129}

HdmaStepCycles == {8, 16}

\* Mmu::set_byte for 0xFF55
HdmaRegWrite(value) ==
    /\ obs.writes < MaxHdmaWrites
    /\ ~mmu.aborted
    /\ hdma' = HdmaSetByte(hdma, 65365, value)
    /\ obs' = [obs EXCEPT !.writes = @ + 1, !.op = "write",
                          !.dma = [NoDma EXCEPT !.entered = obs.dma.entered]]
    /\ UNCHANGED <<clk, timer, joypad, ppu, mmu, cart, cpu, mem>>

\* Mmu::set_byte for 0xFF40
HdmaLcdcWrite(value) ==
    /\ obs.writes < MaxHdmaWrites
    /\ ~mmu.aborted
    /\ ppu' = PpuSetByte(ppu, 65344, value)
    /\ obs' = [obs EXCEPT !.writes = @ + 1, !.op = "write",
                          !.dma = [NoDma EXCEPT !.entered = obs.dma.entered]]
    /\ UNCHANGED <<clk, timer, joypad, hdma, mmu, cart, cpu, mem>>

\* Mmu::run_cycles(cycles).  entered: the LCD is enabled and this advance
\* of the PPU has entered H-Blank; was_entered: the advance before has.
HdmaRun(cycles) ==
    /\ obs.ppu_cycles < MaxHdmaCycles
    /\ ~mmu.aborted
    /\ LET r == MmuRunCycles(Devices, cycles)
       IN  /\ timer' = r.timer
           /\ joypad' = r.joypad
           /\ ppu' = r.ppu
           /\ hdma' = r.hdma
           /\ mmu' = r.mmu
           /\ obs' = [obs EXCEPT
                         !.op = "dma_run",
                         !.ppu_cycles = @ + r.ppu_cycles,
                         !.dma =
                             [hdma |-> hdma.active /\ hdma.mode = "Hdma",
                              gdma |-> hdma.active /\ hdma.mode = "Gdma",
                              len |-> hdma.remain,
                              entered |-> /\ ~r.mmu.aborted
                                          /\ HasBit7(ppu)
                                          /\ r.ppu.hblank,
                              was_entered |-> obs.dma.entered,
                              blocks |-> r.hdma.g_blocks - hdma.g_blocks,
                              bytes |-> r.hdma.g_bytes - hdma.g_bytes,
                              ppu_adv |-> r.ppu_cycles,
                              cyc |-> cycles]]
    /\ UNCHANGED <<clk, cart, cpu, mem>>

HdmaInit ==
    /\ \E o \in HdmaOrigins :
          /\ ppu = HdmaStartsAt(o).ppu
          /\ timer = HdmaStartsAt(o).timer
    /\ joypad = NewJoypad
    /\ \E ws \in HdmaPrograms : hdma = HdmaProgrammed(NewHdma, ws)
    /\ mmu = NewMmu
    /\ clk = NewClock(100)
    /\ cart = NewCart("RomOnly", 32768, 0)
    /\ \E chk \in BOOLEAN : cpu = NewCpu(chk)
    /\ mem = NewMem
    /\ obs = NewObs

HdmaNext ==
    \/ \E v \in HdmaValues : HdmaRegWrite(v)
    \/ \E v \in LcdcValues : HdmaLcdcWrite(v)
    \/ \E c \in HdmaStepCycles : HdmaRun(c)

HdmaSpec == HdmaInit /\ [][HdmaNext]_vars

\* C26: in every step taken while an H-Blank DMA is active, one block is
\* transferred if the PPU has newly entered H-Blank in the advance before
\* the step, and none is transferred otherwise.
C26_OneBlockPerHBlank ==
    (obs.op = "dma_run" /\ obs.dma.hdma)
        => obs.dma.blocks = IF obs.dma.was_entered THEN 1 ELSE 0

\* With the LCD disabled, a step transfers a block although the PPU has not
\* entered H-Blank since the step before.
C26_BlockWithoutHBlank ==
    /\ obs.op = "dma_run"
    /\ obs.dma.hdma
    /\ ~obs.dma.was_entered
    /\ obs.dma.blocks = 1
    /\ ~HasBit7(ppu)
    /\ ~mmu.aborted

\* C27: the step after a write of L (bit 7 clear) to 0xFF55 has started a
\* general-purpose DMA stores (L+1)*16 bytes into VRAM, leaves the engine
\* inactive and forwards (L+1)*8 cycles more to the PPU.
C27_GdmaCompletes ==
    (obs.op = "dma_run" /\ obs.dma.gdma)
        => /\ ~mmu.aborted
           /\ obs.dma.bytes = (obs.dma.len + 1) * 16
           /\ ~hdma.active
           /\ obs.dma.ppu_adv
                = obs.dma.cyc \div mmu.speed + (obs.dma.len + 1) * 8

\* A general-purpose DMA of 2 blocks to 0x9FF0 stores 16 bytes and panics
\* on the store to 0xA000.
C27_GdmaAborts ==
    /\ obs.op = "dma_run"
    /\ obs.dma.gdma
    /\ obs.dma.len = 1
    /\ obs.dma.bytes = 16
    /\ hdma.destination = 40960
    /\ mmu.aborted

\* C28: no transfer panics, and every block transferred has stored its 16
\* bytes into VRAM.
C28_TransfersStayInVram ==
    /\ ~hdma.aborted
    /\ ~mmu.aborted
    /\ hdma.g_bytes = 16 * hdma.g_blocks

\* A transfer started without a write to 0xFF53 panics on its first store,
\* to 0x0000; and in a build that checks overflow, a transfer from 0xFFF0
\* panics when it advances the source.
C28_Aborts ==
    /\ mmu.aborted
    /\ \/ hdma.destination = 0 /\ hdma.g_bytes = 0
       \/ cpu.overflow_checks /\ hdma.source = 65520 /\ hdma.g_bytes = 16

-----------------------------------------------------------------------------
(* The render specification: the LCD stays enabled, the program writes     *)
(* LYC, and emulator steps carry the PPU through the modes of a scanline.  *)
(* A run starts on line 0 or on line 143, at dot 248.                      *)

\* 0xFF45 values
LycValues == {0, 1, 143, 144}

RenderStepCycles == {4, 8}

\* Mmu::set_byte for 0xFF45
LycWrite(value) ==
    /\ obs.writes < MaxRenderWrites
    /\ ~mmu.aborted
    /\ ppu' = PpuSetByte(ppu, 65349, value)
    /\ obs' = [obs EXCEPT !.writes = @ + 1, !.op = "write",
                          !.overflowed = FALSE]
    /\ UNCHANGED <<clk, timer, joypad, hdma, mmu, cart, cpu, mem>>

RenderRun(cycles) ==
    /\ obs.ppu_cycles < MaxRenderCycles
    /\ RunCycles(cycles)

RenderInit ==
    /\ \E o \in HdmaOrigins, gbc \in BOOLEAN :
          /\ ppu = [HdmaStartsAt(o).ppu EXCEPT !.gbc = gbc]
          /\ timer = HdmaStartsAt(o).timer
    /\ joypad = NewJoypad
    /\ hdma = NewHdma
    /\ mmu = NewMmu
    /\ clk = NewClock(100)
    /\ cart = NewCart("RomOnly", 32768, 0)
    /\ cpu = NewCpu(FALSE)
    /\ mem = NewMem
    /\ obs = NewObs

RenderNext ==
    \/ \E v \in LycValues : LycWrite(v)
    \/ \E c \in RenderStepCycles : RenderRun(c)

RenderSpec == RenderInit /\ [][RenderNext]_vars

\* The mode the state table assigns to a line and a dot.
StateTableMode(ly, dots) ==
    IF ly >= 144 THEN 1
    ELSE IF dots < 80 THEN 2
    ELSE IF dots < 252 THEN 3
    ELSE 0

\* C29: after every advance of the PPU with the LCD enabled, the mode of
\* STAT is the mode the state table assigns to LY and the dot counter.
C29_ModeTable ==
    (obs.op = "run" /\ HasBit7(ppu) /\ ~mmu.aborted)
        => ppu.mode = StateTableMode(ppu.lcdc_y, ppu.dots)

\* Four cycles after dot 248 of line 0 the PPU is at dot 252 and in mode 3.
C29_Dot252InMode3 ==
    /\ obs.op = "run"
    /\ ppu.lcdc_y = 0
    /\ ppu.dots = 252
    /\ ppu.mode = 3
    /\ ~ppu.hblank

\* C30: no scanline render indexes the framebuffer out of bounds, and the
\* row the last render stored its pixels in is the row of LY at that
\* render.
C30_RendersRowLy ==
    /\ ~ppu.panicked
    /\ ppu.g_line # -1 => ppu.g_row = ppu.g_line

\* With LYC at its reset value 0, the render of line 143 stores its pixels
\* in row 0.
C30_RendersRowLyc ==
    /\ obs.writes = 0
    /\ ppu.ly_compare = 0
    /\ ppu.g_line = 143
    /\ ppu.g_row = 0

-----------------------------------------------------------------------------
(* The clock specification: a Clock created with one of the periods the    *)
(* timer and the unit test use, and calls of run_cycles on it.             *)

ClockPeriods == {16, 64, 100, 111, 256, 1024}

ClockChunks == {0, 4, 12, 200, 221}

\* Clock::run_cycles called on the Clock
ClockRun(cycles) ==
    /\ obs.clk_total + cycles <= MaxClockCycles
    /\ LET r == ClockRunCycles(clk, cycles)
       IN  /\ clk' = r.clock
           /\ obs' = [obs EXCEPT !.op = "clock_run", !.arg = cycles,
                                 !.clk_total = @ + cycles,
                                 !.clk_ticks = @ + r.ticks,
                                 !.clk_pre = clk.num_cycles,
                                 !.clk_ret = r.ticks]
    /\ UNCHANGED <<timer, joypad, ppu, hdma, mmu, cart, cpu, mem>>

ClockInit ==
    /\ timer = NewTimer
    /\ joypad = NewJoypad
    /\ ppu = NewPpu
    /\ hdma = NewHdma
    /\ mmu = NewMmu
    /\ cart = NewCart("RomOnly", 32768, 0)
    /\ cpu = NewCpu(FALSE)
    /\ mem = NewMem
    /\ \E p \in ClockPeriods : clk = NewClock(p)
    /\ obs = NewObs

ClockNext == \E c \in ClockChunks : ClockRun(c)

ClockSpec == ClockInit /\ [][ClockNext]_vars

\* C16: run_cycles(c) on a Clock with period p and remainder r returns
\* floor((r + c) / p) and leaves the remainder (r + c) mod p; after any
\* sequence of calls the remainder is below p, and p times the ticks
\* returned plus the remainder is the number of cycles supplied.
C16_ClockTicks ==
    /\ obs.op = "clock_run" =>
            /\ obs.clk_ret * clk.period <= obs.clk_pre + obs.arg
            /\ obs.clk_pre + obs.arg < (obs.clk_ret + 1) * clk.period
            /\ clk.num_cycles
                    = obs.clk_pre + obs.arg - obs.clk_ret * clk.period
    /\ clk.num_cycles < clk.period
    /\ clk.period * obs.clk_ticks + clk.num_cycles = obs.clk_total

\* After the second case of the unit test (period 111, 221 cycles, 110
\* kept), four more cycles carry the remainder into a tick.
C16_Witness ==
    /\ obs.op = "clock_run"
    /\ clk.period = 111
    /\ obs.clk_pre = 110
    /\ obs.arg = 4
    /\ obs.clk_ret = 1
    /\ clk.num_cycles = 3
    /\ obs.clk_total = 225

-----------------------------------------------------------------------------
(* The stopped timer, in the device specification.                         *)

\* C36: while TAC bit 2 is clear, advancing the timer by any number of
\* cycles leaves TIMA unchanged and raises no Timer interrupt, while DIV
\* advances by one for every 256 cycles delivered since its last reset.
C36_StoppedTimer ==
    [][(obs'.op = "run" /\ BitAnd(timer.tac, 4) = 0) =>
          /\ timer'.tima = timer.tima
          /\ timer'.g_incs = timer.g_incs
          /\ timer'.interrupt = timer.interrupt
          /\ BitAnd(mmu'.interrupts_asserted, IntTimer)
                = BitAnd(mmu.interrupts_asserted, IntTimer)
          /\ timer'.div
                = (timer.div
                    + (timer.div_clock.num_cycles
                         + obs'.cpu_cycles - obs.cpu_cycles) \div 256) % 256
          /\ timer'.div_clock.num_cycles
                = (timer.div_clock.num_cycles
                     + obs'.cpu_cycles - obs.cpu_cycles) % 256]_vars

\* TMA = 0xFD, then TAC = 3 (period 256, stopped), then 512 cycles: DIV has
\* reached 2 and TIMA still holds what the TAC write left in it.
C36_Witness ==
    /\ obs.op = "run"
    /\ timer.tac = 3
    /\ obs.cpu_cycles = 512
    /\ timer.div = 2
    /\ timer.tima = 253
    /\ timer.g_incs = 0
    /\ BitAnd(mmu.interrupts_asserted, IntTimer) = 0

-----------------------------------------------------------------------------
(* The sprite specification: the PPU is 8 dots before the H-Blank of line  *)
(* 0, and a program has stored a scene in VRAM and OAM:                    *)
(*   tile 0, row 0 (0x8000, 0x8001)  0xAA, 0x00: the background colours    *)
(*                                   of columns 0..7 are 1 0 1 0 1 0 1 0   *)
(*   tile 1, row 0 (0x8010, 0x8011)  0xF0, 0xCC: the sprite colours are    *)
(*                                   3 3 1 1 2 2 0 0                       *)
(*   attribute map entry 0           bgattr (bank 1, 0x9800)               *)
(*   OAM entry 0                     Y = 16, X = 8, tile 1, attribute 0    *)
(* Every other byte is 0, so every map entry shows tile 0 and every other  *)
(* OAM entry is off the screen.  The program then writes LCDC, the         *)
(* attribute byte of OAM entry 0, OBP0 and OBP1, and the machine runs.     *)

SpriteScene(gbc, bgattr) ==
    [HdmaStartsAt(248).ppu EXCEPT
        !.gbc = gbc, !.g_draw = TRUE,
        !.vram = (0 :> 170) @@ (1 :> 0) @@ (16 :> 240) @@ (17 :> 204)
                    @@ (14336 :> bgattr),
        !.oam = (0 :> 16) @@ (1 :> 8) @@ (2 :> 1) @@ (3 :> 0)]

SpriteWrites ==
    { <<65344, 147>>, <<65344, 146>>, <<65027, 16>>, <<65027, 128>>,
      <<65352, 228>>, <<65353, 27>> }

SpriteStepCycles == {8}

SpriteWrite(addr, value) ==
    /\ obs.writes < MaxSpriteWrites
    /\ ~mmu.aborted
    /\ ppu' = MmuSetByte(Devices, addr, value).ppu
    /\ obs' = [obs EXCEPT !.writes = @ + 1, !.op = "write",
                          !.overflowed = FALSE]
    /\ UNCHANGED <<clk, timer, joypad, hdma, mmu, cart, cpu, mem>>

SpriteRun(cycles) ==
    /\ obs.ppu_cycles < MaxSpriteCycles
    /\ RunCycles(cycles)

SpriteInit ==
    /\ \E gbc \in BOOLEAN, bgattr \in {0, 128} :
          ppu = SpriteScene(gbc, bgattr)
    /\ timer = HdmaStartsAt(248).timer
    /\ joypad = NewJoypad
    /\ hdma = NewHdma
    /\ mmu = NewMmu
    /\ clk = NewClock(100)
    /\ cart = NewCart("RomOnly", 32768, 0)
    /\ cpu = NewCpu(FALSE)
    /\ mem = NewMem
    /\ obs = NewObs

SpriteNext ==
    \/ \E w \in SpriteWrites : SpriteWrite(w[1], w[2])
    \/ \E c \in SpriteStepCycles : SpriteRun(c)

SpriteSpec == SpriteInit /\ [][SpriteNext]_vars

\* The last operation was a run that rendered a scanline with sprites
\* enabled.
SpritesRendered ==
    /\ obs.op = "run"
    /\ ppu.hblank
    /\ ~ppu.panicked
    /\ Bit(ppu.lcdc, 1) # 0

\* The columns of the scanline that OAM entry i covers with a pixel that
\* is not transparent.
SpriteCovers(i) ==
    IF SpriteSkipped(ppu, i) THEN {}
    ELSE { (SpriteX(ppu, i) + x) % 256 : x \in
              { x \in 0..7 : /\ (SpriteX(ppu, i) + x) % 256 < ScreenWidth
                             /\ SpriteColor(ppu, i, x) # 0 } }

\* C34: in CGB mode with LCDC bit 0 clear, every sprite pixel that covers
\* the scanline and is not transparent is drawn over the background,
\* whatever the background colour index and the priority attributes are.
C34_SpritesAlwaysWin ==
    (SpritesRendered /\ ppu.gbc /\ Bit(ppu.lcdc, 0) = 0)
        => \A i \in 0..39 : SpriteCovers(i) \subseteq DOMAIN ppu.g_obj

\* Column 1: the sprite's colour is 3, the background's is 0 and no
\* priority attribute is set, and the sprite pixel is not drawn, while in
\* column 0, over background colour 1, it is.
C34_HiddenOverColour0 ==
    /\ SpritesRendered
    /\ ppu.gbc
    /\ Bit(ppu.lcdc, 0) = 0
    /\ Load(ppu.oam, 3) = 0
    /\ Load(ppu.vram, 14336) = 0
    /\ SpriteColor(ppu, 0, 1) = 3
    /\ Priority(ppu, 1) = <<FALSE, 0>>
    /\ 1 \notin DOMAIN ppu.g_obj
    /\ 0 \in DOMAIN ppu.g_obj

\* C35: in DMG mode a drawn sprite pixel takes its shade from OBP1 when
\* bit 4 of the sprite's attribute byte is set and from OBP0 when it is
\* clear.
C35_PaletteByBit4 ==
    (SpritesRendered /\ ~ppu.gbc)
        => \A col \in DOMAIN ppu.g_obj :
              ppu.g_data[col]
                = Greyscale(GetGrayShade(
                      IF Bit(ppu.g_obj[col].attr, 4) # 0
                      THEN ppu.object_pallete_1
                      ELSE ppu.object_pallete_0,
                      ppu.g_obj[col].color))

\* Bit 4 is set, OBP0 = 0xFF and OBP1 = 0x1B: the pixel of colour 3 in
\* column 1 is stored with shade 3 of OBP0 (black), not of OBP1 (white).
C35_Bit4TakesObp0 ==
    /\ SpritesRendered
    /\ ~ppu.gbc
    /\ Load(ppu.oam, 3) = 16
    /\ ppu.object_pallete_0 = 255
    /\ ppu.object_pallete_1 = 27
    /\ 1 \in DOMAIN ppu.g_obj
    /\ ppu.g_obj[1] = [i |-> 0, color |-> 3, attr |-> 16]
    /\ ppu.g_data[1] = Greyscale(0)
    /\ GetGrayShade(ppu.object_pallete_1, 3) = 255

-----------------------------------------------------------------------------
(* Reads of the cartridge windows, in the cartridge specification.         *)

\* C32: for every controller, every accepted image and every sequence of
\* bank-register writes, a read in 0x4000-0x7FFF indexes inside the ROM
\* image and returns a byte without aborting.
C32_RomReadInside ==
    (obs.op = "read" /\ obs.read # <<>> /\ InRange(obs.read[1], 16384, 32767))
        => (obs.read[2] # Abort /\ ~cart.aborted)

\* An MBC1 with a 4-bank image: 5 written to 0x2100 selects bank 5, and
\* the read of 0x4000 indexes rom[0x14000] in the 0x10000-byte image.
C32_BankBeyondImage ==
    /\ obs.op = "read"
    /\ obs.read = <<16384, Abort>>
    /\ cart.kind = "Mbc1"
    /\ cart.rom_len = 65536
    /\ Mbc1RomBank(cart) = 5
    /\ cart.aborted

\* C33: for every cartridge type, a read in 0xA000-0xBFFF while cartridge
\* RAM is not enabled returns 0 and does not abort.
C33_DisabledRamReadsZero ==
    (/\ obs.op = "read"
     /\ obs.read # <<>>
     /\ InRange(obs.read[1], 40960, 49151)
     /\ ~cart.ram_enabled)
        => (obs.read[2] = 0 /\ ~cart.aborted)

\* The ROM-only cartridge indexes its 32 KiB image with 0xA000.
C33_RomOnlyAborts ==
    /\ obs.op = "read"
    /\ obs.read = <<40960, Abort>>
    /\ cart.kind = "RomOnly"
    /\ cart.rom_len = 32768
    /\ ~cart.ram_enabled
    /\ cart.aborted

-----------------------------------------------------------------------------
(* The work RAM specification: a program writes SVBK (0xFF70) and reads    *)
(* and writes the work RAM and its echo.                                   *)

SvbkValues == {0, 1, 7, 8, 9, 255}
WramAddrs == {49152, 53248, 57343, 57344, 61440, 65023}
WramValues == {90, 165}

SvbkWrite(value) ==
    /\ ~mmu.aborted
    /\ obs.writes < MaxWramOps
    /\ mmu' = MmuSetByte(Devices, 65392, value).mmu
    /\ obs' = [obs EXCEPT !.writes = @ + 1, !.op = "svbk", !.arg = value,
                          !.read = <<>>]
    /\ UNCHANGED <<timer, joypad, ppu, hdma, cart, cpu, mem, clk>>

WramWrite(addr, value) ==
    /\ ~mmu.aborted
    /\ obs.writes < MaxWramOps
    /\ mmu' = MmuSetByte(Devices, addr, value).mmu
    /\ obs' = [obs EXCEPT !.writes = @ + 1, !.op = "wram_write",
                          !.arg = value, !.read = <<>>]
    /\ UNCHANGED <<timer, joypad, ppu, hdma, cart, cpu, mem, clk>>

WramRead(addr) ==
    /\ ~mmu.aborted
    /\ obs.writes < MaxWramOps
    /\ mmu' = [mmu EXCEPT !.aborted = WramGetByte(mmu, addr) = Abort]
    /\ obs' = [obs EXCEPT !.writes = @ + 1, !.op = "wram_read",
                          !.read = <<addr, WramGetByte(mmu, addr)>>]
    /\ UNCHANGED <<timer, joypad, ppu, hdma, cart, cpu, mem, clk>>

WramInit ==
    /\ timer = NewTimer
    /\ joypad = NewJoypad
    /\ ppu = NewPpu
    /\ hdma = NewHdma
    /\ mmu = NewMmu
    /\ clk = NewClock(100)
    /\ cart = NewCart("RomOnly", 32768, 0)
    /\ cpu = NewCpu(FALSE)
    /\ mem = NewMem
    /\ obs = NewObs

WramNext ==
    \/ \E v \in SvbkValues : SvbkWrite(v)
    \/ \E a \in WramAddrs, v \in WramValues : WramWrite(a, v)
    \/ \E a \in WramAddrs \cup {65392} : WramRead(a)

WramSpec == WramInit /\ [][WramNext]_vars

\* C31: after any write to 0xFF70 the bank used for 0xD000-0xDFFF and its
\* echo is in 1..7, and no access to the work RAM leaves the 32 KiB array.
C31_BankInRange ==
    /\ mmu.wram_bank \in 1..7
    /\ ~mmu.aborted

\* The write of 9 selects bank 9, and the read of 0xD000 that follows
\* indexes wram[0x9000] and panics.
C31_Bank9Aborts ==
    /\ obs.op = "wram_read"
    /\ obs.read = <<53248, Abort>>
    /\ mmu.wram_bank = 9
    /\ mmu.aborted

-----------------------------------------------------------------------------
(* The sound specification: an Mmu that owns an Apu takes bus writes to    *)
(* the sound registers and forwards cycles to the APU, one period of the   *)
(* frame sequencer clock at a time.                                        *)
(*                                                                         *)
(* obs.wrote is the last write, obs.width_set_on_zero that since the last  *)
(* trigger of the noise channel a write has set the width-mode bit of NR43 *)
(* while the low seven bits of the LFSR were all 0.                        *)

\* The APU after the bus writes of a script, from Apu::new.
RECURSIVE ApuAfter(_, _)
ApuAfter(a, script) ==
    IF script = <<>> THEN a
    ELSE ApuAfter(ApuSetByte(a, script[1][1], script[1][2]), Tail(script))

\* Where the specification starts: the APU as created; powered with Wave
\* RAM and NR50 written; with the noise channel triggered at volume 15,
\* eight ticks a frame; with the first square channel triggered at volume
\* 15, its envelope rising every envelope clock.
ApuScripts ==
    {<<>>,
     <<<<65318, 128>>, <<65328, 165>>, <<65316, 119>>>>,
     <<<<65318, 128>>, <<65313, 240>>, <<65314, 112>>, <<65315, 128>>>>,
     <<<<65318, 128>>, <<65298, 249>>, <<65300, 128>>>>}

ApuWrites ==
    {<<65318, 0>>, <<65318, 128>>, <<65328, 90>>, <<65316, 68>>,
     <<65319, 1>>, <<65298, 1>>, <<65300, 128>>, <<65313, 9>>,
     <<65314, 120>>, <<65315, 128>>}

ApuStepCycles == {8192}

TheApu == mmu.apu[1]

\* A write that sets the width-mode bit of NR43 on an LFSR whose low seven
\* bits are all 0.
WidthSetOnZero(a, addr, value) ==
    /\ addr = 65314
    /\ GetPowerStatus(a.register)
    /\ BitAnd(value, 8) # 0
    /\ ~GetWidthModeOfLfsr(a.channel4.register)
    /\ a.channel4.lfsr % 128 = 0

\* A write that triggers the noise channel.
NoiseTriggered(a, addr, value) ==
    addr = 65315 /\ GetPowerStatus(a.register) /\ BitAnd(value, 128) # 0

ApuWrite(addr, value) ==
    /\ ~mmu.aborted
    /\ obs.writes < MaxApuWrites
    /\ mmu' = MmuSetByte(Devices, addr, value).mmu
    /\ obs' = [obs EXCEPT
                 !.writes = @ + 1, !.op = "apu_write",
                 !.wrote = <<addr, value>>,
                 !.width_set_on_zero =
                     IF NoiseTriggered(TheApu, addr, value) THEN FALSE
                     ELSE @ \/ WidthSetOnZero(TheApu, addr, value)]
    /\ UNCHANGED <<timer, joypad, ppu, hdma, cart, cpu, mem, clk>>

ApuRun(cycles) ==
    /\ ~mmu.aborted
    /\ obs.ppu_cycles < MaxApuCycles
    /\ mmu' = MmuApuRunCycles(mmu, cycles)
    /\ obs' = [obs EXCEPT !.ppu_cycles = @ + cycles, !.op = "apu_run",
                          !.wrote = <<>>]
    /\ UNCHANGED <<timer, joypad, ppu, hdma, cart, cpu, mem, clk>>

ApuInit ==
    /\ timer = NewTimer
    /\ joypad = NewJoypad
    /\ ppu = NewPpu
    /\ hdma = NewHdma
    /\ \E script \in ApuScripts :
          mmu = [NewMmu EXCEPT !.apu = <<ApuAfter(NewApu(2, 1), script)>>]
    /\ clk = NewClock(100)
    /\ cart = NewCart("RomOnly", 32768, 0)
    /\ cpu = NewCpu(FALSE)
    /\ mem = NewMem
    /\ obs = NewObs

ApuNext ==
    \/ \E w \in ApuWrites : ApuWrite(w[1], w[2])
    \/ \E c \in ApuStepCycles : ApuRun(c)

ApuSpec == ApuInit /\ [][ApuNext]_vars

\* The register bytes of the APU and the Wave RAM.
ApuRegisters(a) ==
    <<a.register, a.channel1.register, a.channel2.register,
      a.channel3.register, a.channel4.register, a.channel3.wave_ram>>

\* C37: while the power bit of NR52 is clear, a write to a sound address
\* other than NR52 changes no sound register and does not panic, and no
\* step that leaves the APU powered off, the write that clears the bit
\* included, changes the Wave RAM.
C37_PoweredOffWrites ==
    [][/\ (/\ obs'.op = "apu_write"
           /\ obs'.wrote[1] # 65318
           /\ ~GetPowerStatus(TheApu.register))
          => /\ ApuRegisters(mmu'.apu[1]) = ApuRegisters(TheApu)
             /\ ~mmu'.aborted
       /\ ~GetPowerStatus(mmu'.apu[1].register)
          => mmu'.apu[1].channel3.wave_ram = TheApu.channel3.wave_ram]_vars

\* A write to Wave RAM has arrived after power-off and the byte written
\* before power-off is still there.
C37_Witness ==
    /\ obs.op = "apu_write"
    /\ obs.wrote = <<65328, 90>>
    /\ ~GetPowerStatus(TheApu.register)
    /\ Load(TheApu.channel3.wave_ram, 0) = 165
    /\ TheApu.register.nrx0 = 0

\* The envelope volumes of the two square channels and the noise channel.
Envelopes(a) ==
    <<a.channel1, a.channel2, a.channel4>>

\* The next envelope step of the channel would leave 0..15.
EnvelopeLeavesRange(ch) ==
    \/ GetEnvelopeAddMode(ch.register) /\ ch.volume_envelope.volume = 15
    \/ ~GetEnvelopeAddMode(ch.register) /\ ch.volume_envelope.volume = 0

\* C39: the envelope volume of a square or noise channel is always within
\* 0..15, and forwarding cycles to a channel whose next envelope step
\* would leave that range leaves its volume unchanged.
C39_EnvelopeInRange ==
    /\ [](\A i \in 1..3 :
            Envelopes(TheApu)[i].volume_envelope.volume \in 0..15)
    /\ [][\A i \in 1..3 :
            (obs'.op = "apu_run" /\ EnvelopeLeavesRange(Envelopes(TheApu)[i]))
            => Envelopes(mmu'.apu[1])[i].volume_envelope.volume
                   = Envelopes(TheApu)[i].volume_envelope.volume]_vars

\* The envelope of the first square channel has just been clocked at
\* volume 15 in add mode with period 1.
C39_Witness ==
    /\ obs.op = "apu_run"
    /\ TheApu.frame_sequencer = 7
    /\ TheApu.channel1.register.nrx2 = 249
    /\ TheApu.channel1.volume_envelope.volume = 15
    /\ TheApu.channel1.volume_envelope.clock.period = 1

\* C40 as stated: the LFSR is never 0.
C40_LfsrNeverZero == TheApu.channel4.lfsr # 0

\* C40: the LFSR is never 0 unless, since the last trigger, the width-mode
\* bit of NR43 was set while the low seven bits of the LFSR were all 0.
C40_LfsrZeroOnlyAfterWidthSet ==
    ~obs.width_set_on_zero => TheApu.channel4.lfsr # 0

\* The width-mode bit was set on an LFSR with a low bit set, and the LFSR
\* has ticked in the 7-bit mode since.
C40_Witness ==
    /\ obs.op = "apu_run"
    /\ ~obs.width_set_on_zero
    /\ GetWidthModeOfLfsr(TheApu.channel4.register)
    /\ GetTrigger(TheApu.channel4.register)
    /\ TheApu.channel4.lfsr \notin {0, 1}

\* The LFSR at 0 in the 7-bit mode, where a tick leaves it at 0.
C40_LfsrStuck ==
    /\ obs.op = "apu_run"
    /\ obs.width_set_on_zero
    /\ TheApu.channel4.lfsr = 0
    /\ LfsrNext(TheApu.channel4.lfsr, TheApu.channel4.register) = 0

-----------------------------------------------------------------------------
(* The sample buffer: the thread of the emulator in Apu::play and the      *)
(* audio thread in the stream's callback, each step of either taken with   *)
(* the mutex held.                                                         *)

AudioRates == {2, 3, 4}
AudioChunks == {1, 2, 3}
AudioFrames == {1, 2, 4}

\* Apu::play is called and locks the mutex.
PlayLock(count) ==
    /\ TheApu.lock = "free"
    /\ mmu' = [mmu EXCEPT !.apu[1].lock = "apu", !.apu[1].playing = count]
    /\ obs' = [obs EXCEPT !.op = "play_lock"]
    /\ UNCHANGED <<timer, joypad, ppu, hdma, cart, cpu, mem, clk>>

\* One turn of the loop of Apu::play.
PlayTurn ==
    /\ TheApu.lock = "apu"
    /\ TheApu.playing > 0
    /\ IF PlayReturns(TheApu.buffer, TheApu.sample_rate)
       THEN /\ mmu' = [mmu EXCEPT !.apu[1].lock = "free",
                                  !.apu[1].playing = 0]
            /\ obs' = [obs EXCEPT !.op = "play_drop"]
       ELSE /\ mmu' = [mmu EXCEPT !.apu[1].buffer = @ + 1,
                                  !.apu[1].playing = @ - 1]
            /\ obs' = [obs EXCEPT !.op = "play_push"]
    /\ UNCHANGED <<timer, joypad, ppu, hdma, cart, cpu, mem, clk>>

\* Apu::play returns after its last sample and the guard unlocks.
PlayUnlock ==
    /\ TheApu.lock = "apu"
    /\ TheApu.playing = 0
    /\ mmu' = [mmu EXCEPT !.apu[1].lock = "free"]
    /\ obs' = [obs EXCEPT !.op = "play_unlock"]
    /\ UNCHANGED <<timer, joypad, ppu, hdma, cart, cpu, mem, clk>>

\* The callback is called for `frames' pairs and locks the mutex.
CallbackLock(frames) ==
    /\ TheApu.lock = "free"
    /\ mmu' = [mmu EXCEPT !.apu[1].lock = "audio", !.apu[1].wanted = frames]
    /\ obs' = [obs EXCEPT !.op = "callback_lock"]
    /\ UNCHANGED <<timer, joypad, ppu, hdma, cart, cpu, mem, clk>>

\* write_audio_data_to_buffer drains the buffer and the guard unlocks.
CallbackDrain ==
    /\ TheApu.lock = "audio"
    /\ mmu' = [mmu EXCEPT
                 !.apu[1].buffer = WriteAudioDataToBuffer(@, TheApu.wanted),
                 !.apu[1].lock = "free", !.apu[1].wanted = -1]
    /\ obs' = [obs EXCEPT !.op = "callback_drain"]
    /\ UNCHANGED <<timer, joypad, ppu, hdma, cart, cpu, mem, clk>>

AudioInit ==
    /\ timer = NewTimer
    /\ joypad = NewJoypad
    /\ ppu = NewPpu
    /\ hdma = NewHdma
    /\ \E rate \in AudioRates :
          mmu = [NewMmu EXCEPT !.apu = <<NewApu(rate, 1)>>]
    /\ clk = NewClock(100)
    /\ cart = NewCart("RomOnly", 32768, 0)
    /\ cpu = NewCpu(FALSE)
    /\ mem = NewMem
    /\ obs = NewObs

AudioNext ==
    \/ \E count \in AudioChunks : PlayLock(count)
    \/ PlayTurn
    \/ PlayUnlock
    \/ \E frames \in AudioFrames : CallbackLock(frames)
    \/ CallbackDrain

AudioSpec == AudioInit /\ [][AudioNext]_vars

\* C38 as stated: the buffer never holds more than sample_rate pairs.
C38_AtMostOneSecond == TheApu.buffer <= TheApu.sample_rate

\* The buffer holds one pair more than a second of audio.
C38_OnePairOver ==
    /\ obs.op = "play_push"
    /\ TheApu.buffer = TheApu.sample_rate + 1

=============================================================================
